---- MODULE Spec2Model ----
(***************************************************************************)
(* A model of the MNIST feed-forward network of src/Network.hpp (the       *)
(* templated implementation, impl = "hpp") and src/main4.cpp (the fixed    *)
(* implementation, impl = "main4").                                        *)
(*                                                                         *)
(* Layers are numbered 1..L in chain order (layers[i-1] of the code); the  *)
(* input layer is layer 0.  Mini-batch slots and parallel_for workers are  *)
(* numbered 0..MbSize-1, as in the code.                                   *)
(*                                                                         *)
(* Floating-point values are not computed in the network machine: a        *)
(* weight tensor is represented by the number of updates applied to it,    *)
(* and a neuron array by the record of who wrote which slot.  The numeric  *)
(* functions (max-pooling, readOutput) are modelled on their own, over an  *)
(* order-preserving integer image of the floats they compare.              *)
(***************************************************************************)
EXTENDS Integers, Sequences, FiniteSets, TLC

\* ------------------------------------------------------------------ bounds

\* Template parameter mbSize (10 in main4.cpp), scaled down.
MbSize == 2
\* Data sets hold 1..MaxImages images.
MaxImages == 4
\* params.numEpochs / numEpochs, scaled down.
NumEpochs == 1
\* Values are 0..MaxValue: the float order restricted to 0.0 (0), a positive
\* subnormal (1), numeric_limits<float>::min() (FltMin) and larger normals.
MaxValue == 4
\* A softmax/output layer of the readOutput model has 1..MaxOutputs neurons.
MaxOutputs == 3

\* std::numeric_limits<float>::min(): the smallest positive normal float.
FltMin == 2

Slots == 0 .. (MbSize - 1)
Values == 0 .. MaxValue

\* ---------------------------------------------------------- layer objects

NoLayer ==
  [type |-> "None", layerSize |-> 0, prevSize |-> 0,
   kernelX |-> 0, kernelY |-> 0, kernelZ |-> 0,
   inputX |-> 0, inputY |-> 0, inputZ |-> 0,
   numFMs |-> 0, poolX |-> 0, poolY |-> 0]

InputLayer(imgX, imgY) ==
  [NoLayer EXCEPT !.type = "Input", !.inputX = imgX, !.inputY = imgY,
                  !.inputZ = 1]

FullyConnectedLayer(size, prev) ==
  [NoLayer EXCEPT !.type = "FC", !.layerSize = size, !.prevSize = prev]

SoftMaxLayer(size, prev) ==
  [NoLayer EXCEPT !.type = "SoftMax", !.layerSize = size, !.prevSize = prev]

ConvLayer(kX, kY, kZ, inX, inY, inZ, fms) ==
  [NoLayer EXCEPT !.type = "Conv", !.kernelX = kX, !.kernelY = kY,
                  !.kernelZ = kZ, !.inputX = inX, !.inputY = inY,
                  !.inputZ = inZ, !.numFMs = fms]

MaxPoolLayer(pX, pY, inX, inY, inZ) ==
  [NoLayer EXCEPT !.type = "Pool", !.poolX = pX, !.poolY = pY,
                  !.inputX = inX, !.inputY = inY, !.inputZ = inZ]

\* The extents of a layer's neuron array, as <<x, y, z>> or <<n>>.
Shape(layer) ==
  CASE layer.type = "Input" -> <<layer.inputX, layer.inputY, 1>>
    [] layer.type = "Conv"  -> <<layer.inputX - layer.kernelX + 1,
                                 layer.inputY - layer.kernelY + 1,
                                 layer.numFMs>>
    [] layer.type = "Pool"  -> <<layer.inputX \div layer.poolX,
                                 layer.inputY \div layer.poolY,
                                 layer.inputZ>>
    [] OTHER                -> <<layer.layerSize>>

RECURSIVE Product(_)
Product(s) == IF s = <<>> THEN 1 ELSE Head(s) * Product(Tail(s))

\* Layer::size()
size(layer) == Product(Shape(layer))

\* Layer::getNumDims(); main4.cpp's input layer answers 2.
getNumDims(im, layer) ==
  IF im = "main4" /\ layer.type = "Input" THEN 2 ELSE Len(Shape(layer))

\* The operations of the Layer interface.
LayerOps ==
  {"initialiseDefaultWeights", "feedForward", "calcBwdError", "backPropogate",
   "endBatch", "setInputs", "setOutputs", "getBwdError1", "getBwdError3",
   "getNeuron1", "getNeuron3", "getNumDims", "getDim", "size"}

\* The additional pure virtuals of main4.cpp's Layer.
OutputOps ==
  {"computeOutputError", "computeOutputCost", "sumSquaredWeights",
   "readOutput"}

LayerTypes(im) ==
  IF im = "hpp" THEN {"Input", "FC", "SoftMax", "Conv", "Pool"}
                ELSE {"Input", "FC", "Conv", "Pool"}

OpsOf(im) == IF im = "hpp" THEN LayerOps ELSE LayerOps \cup OutputOps

\* The methods of Network.hpp whose body is UNREACHABLE().
UnreachableHpp(type, op) ==
  CASE type = "Input" ->
         op \in {"initialiseDefaultWeights", "calcBwdError", "feedForward",
                 "backPropogate", "endBatch", "setInputs", "setOutputs",
                 "getBwdError1", "getBwdError3"}
    [] type = "FC" -> op \in {"getBwdError3", "getNeuron3"}
    [] type = "SoftMax" ->
         op \in {"setOutputs", "backPropogate", "getBwdError3", "getNeuron3"}
    [] type \in {"Conv", "Pool"} -> op = "getBwdError1"
    [] OTHER -> FALSE

\* The methods of main4.cpp whose body is DO_NOT_USE.
DoNotUseMain4(type, op) ==
  CASE type = "Input" ->
         op \in {"initialiseDefaultWeights", "calcBwdError", "feedForward",
                 "backPropogate", "endBatch", "setInputs", "setOutputs",
                 "getBwdError1", "getBwdError3"} \cup OutputOps
    [] type = "FC" -> op \in {"getBwdError3", "getNeuron3"}
    [] type \in {"Conv", "Pool"} ->
         op \in {"getBwdError1", "getNeuron1", "computeOutputCost",
                 "computeOutputError", "readOutput"}
    [] OTHER -> FALSE

\* Unsupported with the 1-D getNeuron of the volumetric layers left
\* unimplemented, as it is in main4.cpp.
UnsupportedNoFlatNeuron(im, type, op) ==
  IF im = "hpp"
  THEN \/ UnreachableHpp(type, op)
       \/ type \in {"Conv", "Pool"} /\ op = "getNeuron1"
  ELSE DoNotUseMain4(type, op)

\* Whether the layer type does not support the operation.
Unsupported(im, type, op) ==
  IF im = "hpp" THEN UnreachableHpp(type, op) ELSE DoNotUseMain4(type, op)

\* What a failed check or an invalid access does, by kind and by build.
\*   "unsupported": UNREACHABLE() is __builtin_trap() without NDEBUG and
\*       __builtin_unreachable() (undefined behaviour) with it; DO_NOT_USE is
\*       assert(0), which NDEBUG removes: the method then returns a default.
\*   "assert": an assert() that does not hold; removed by NDEBUG.
\*   "range": an index outside a boost::multi_array, checked by BOOST_ASSERT
\*       without NDEBUG and undefined behaviour with it.
\*   "pastEnd", "null": an iterator past the end of a vector or a null
\*       layer pointer is dereferenced: undefined behaviour in every build.
\* "fatal" is the stopped program, "undefined" is a program that went on
\* after undefined behaviour or with a made-up value, "ok" is no effect.
Outcomes(im, nd, fault) ==
  CASE fault = "none" -> {"ok"}
    [] fault = "unsupported" ->
         IF ~nd THEN {"fatal"}
         ELSE IF im = "hpp" THEN {"fatal", "undefined"} ELSE {"undefined"}
    [] fault = "assert" -> IF nd THEN {"ok"} ELSE {"fatal"}
    [] fault = "range" -> IF nd THEN {"fatal", "undefined"} ELSE {"fatal"}
    [] OTHER -> {"fatal", "undefined"}

\* ------------------------------------------------------- the network state

VARIABLES
  impl,        \* "hpp" (Network.hpp) or "main4" (main4.cpp)
  ndebug,      \* whether the build defines NDEBUG
  config,      \* the declared network: image extents, hidden layers, output
  params,      \* the Params bundle: monitoring interval and toggles
  numImages,   \* the size of each data set partition
  layers,      \* Network::layers
  inputs,      \* inputs[l]: layer l's predecessor link (-1 is nullptr)
  outputs,     \* outputs[l]: layer l's successor link (-1 is nullptr)
  weights,     \* weights[l]: updates applied to layer l's weights (-1: none)
  bias,        \* bias[l]: updates applied to layer l's biases (-1: none)
  phase,       \* where the program is
  fault,       \* the failed check or invalid access that ended the run
  epoch,       \* SGD's epoch counter
  mbStart,     \* SGD's mini-batch offset i
  pc,          \* pc[w]: worker w's position in Network::backPropogate
  log,         \* log[w]: the layer operations worker w has invoked
  writes,      \* the scratch locations written in this mini-batch, by whom
  endIdx,      \* updateMiniBatch's endBatch loop: the next layer
  endLog,      \* the endBatch calls of this mini-batch, in order
  evalQueue,   \* the evaluations still to run at this monitoring point
  evalKind,    \* the evaluation that is running
  evalStart,   \* the evaluation's offset i
  evalPending  \* the slots of the evaluation's current range still to run

netVars ==
  <<impl, ndebug, config, params, numImages, layers, inputs, outputs,
    weights, bias, phase, fault, epoch, mbStart, pc, log, writes, endIdx,
    endLog, evalQueue, evalKind, evalStart, evalPending>>

\* ------------------------------------------ single calls on a single layer

VARIABLES
  poolLayer,   \* a MaxPoolLayer
  poolMb,      \* the slot its feedForward is called for
  poolIn,      \* poolIn[<<x, y, z>>]: the predecessor's activations[poolMb]
  poolOut,     \* poolOut[mb][<<x, y, z>>]: neurons[x][y][z]->activations[mb]
  poolDone,    \* whether feedForward has returned
  outActs,     \* outActs[mb][i]: the output layer's neurons[i-1].activations[mb]
  outMb,       \* the slot readOutput is called for
  outResult,   \* what readOutput returned (-1: not called yet)
  callType,    \* the layer variant a method is called on
  callOp,      \* the method
  callResult,  \* how the call ended ("pending": not called yet)
  frame        \* one call of another function: its name, arguments, result

callVars ==
  <<poolLayer, poolMb, poolIn, poolOut, poolDone, outActs, outMb, outResult,
    callType, callOp, callResult, frame>>

vars == <<netVars, callVars>>

\* ------------------------------------------------------- declared networks

Conv1 == ConvLayer(1, 1, 1, 2, 2, 1, 1)
Pool1 == MaxPoolLayer(2, 2, 2, 2, 1)

Net(hidden, outSize, lastSize) ==
  [imageX |-> 2, imageY |-> 2, hidden |-> hidden,
   softMaxSize |-> outSize, lastLayerSize |-> lastSize]

\* Chains whose declared input sizes all match.
MatchingNets ==
  { Net(<<FullyConnectedLayer(2, 4)>>, 2, 2),
    Net(<<Conv1, Pool1>>, 2, 1),
    Net(<<Conv1, FullyConnectedLayer(2, 4)>>, 2, 2),
    Net(<<Conv1>>, 2, 4),
    Net(<<Pool1>>, 2, 1),
    Net(<<FullyConnectedLayer(4, 4), Conv1>>, 2, 4),
    Net(<<FullyConnectedLayer(4, 4), Pool1>>, 2, 1),
    Net(<<>>, 2, 4) }

\* Chains with a declared input size that differs from the predecessor's.
MismatchingNets ==
  { Net(<<FullyConnectedLayer(2, 3)>>, 2, 2),
    Net(<<FullyConnectedLayer(2, 4)>>, 2, 3),
    Net(<<FullyConnectedLayer(3, 4), FullyConnectedLayer(2, 2)>>, 2, 2),
    Net(<<ConvLayer(1, 1, 1, 3, 1, 1, 1)>>, 2, 3),
    Net(<<MaxPoolLayer(2, 1, 2, 1, 1)>>, 2, 1) }

NetConfigs == MatchingNets \cup MismatchingNets

\* Params: monitorInterval and the four monitoring toggles, in the order
\* SGD tests them.
ParamsSet ==
  { [monitorInterval |-> 1,
     monitorEvaluationAccuracy |-> FALSE, monitorEvaluationCost |-> FALSE,
     monitorTrainingAccuracy |-> FALSE, monitorTrainingCost |-> FALSE],
    [monitorInterval |-> 1,
     monitorEvaluationAccuracy |-> TRUE, monitorEvaluationCost |-> FALSE,
     monitorTrainingAccuracy |-> FALSE, monitorTrainingCost |-> TRUE],
    [monitorInterval |-> 2 * MbSize,
     monitorEvaluationAccuracy |-> FALSE, monitorEvaluationCost |-> TRUE,
     monitorTrainingAccuracy |-> TRUE, monitorTrainingCost |-> FALSE] }

\* main4.cpp's monitoring toggles are global constants.
Main4Params ==
  [monitorInterval |-> 1,
   monitorEvaluationAccuracy |-> FALSE, monitorEvaluationCost |-> FALSE,
   monitorTrainingAccuracy |-> TRUE, monitorTrainingCost |-> FALSE]

\* The layer list handed to the constructor.  Network.hpp appends the
\* softmax layer itself; in main4.cpp the caller's list ends with the
\* fully-connected output layer.
DeclaredLayers(im, cfg) ==
  IF im = "hpp" THEN cfg.hidden
  ELSE cfg.hidden \o <<FullyConnectedLayer(cfg.softMaxSize,
                                           cfg.lastLayerSize)>>

inputLayer == InputLayer(config.imageX, config.imageY)

LayerAt(ls, l) == IF l = 0 THEN inputLayer ELSE ls[l]

\* ------------------------------------------------ construction (Network)

\* The assert of setInputs: ConvLayer and MaxPoolLayer compare the
\* predecessor's size() with their declared input volume; the
\* fully-connected and softmax layers have no check.
setInputsAssert(im, layer, pred) ==
  CASE layer.type = "Conv" ->
         IF im = "hpp"
         THEN size(pred) = layer.inputX * layer.inputY * layer.inputZ
         ELSE size(pred) = layer.inputX * layer.inputY
    [] layer.type = "Pool" ->
         size(pred) = layer.poolX * layer.poolY * size(layer)
    [] OTHER -> TRUE

\* The input size a layer declares.
declaredInputSize(layer) ==
  IF layer.type \in {"FC", "SoftMax"} THEN layer.prevSize
  ELSE layer.inputX * layer.inputY * layer.inputZ

\* What layers[l]->setInputs(pred) runs into.
setInputsFault(im, layer, pred) ==
  IF Unsupported(im, layer.type, "setInputs") THEN "unsupported"
  ELSE IF ~setInputsAssert(im, layer, pred) THEN "assert"
  ELSE "none"

\* The layers of the chain, in constructor order, whose setInputs stops a
\* build in which the checks are compiled in.
RejectedAt(im, nd, ls) ==
  { l \in 1 .. Len(ls) :
      "ok" \notin Outcomes(im, nd, setInputsFault(im, ls[l],
                                                  LayerAt(ls, l - 1))) }

Min(S) == CHOOSE x \in S : \A y \in S : x <= y

\* Whether a layer type has weights and biases (MaxPoolLayer has none).
Trainable(layer) == layer.type \in {"FC", "SoftMax", "Conv"}

\* A variant of the loop that also runs for the last layer.
setOutputsLoopToEnd(L) == [l \in 1 .. L |-> l + 1]

\* The constructor's second loop: layers[i]->setOutputs(layers[i + 1]) for
\* every layer but the last, whose successor link stays unset (-1).
setOutputsLoop(L) == [l \in 1 .. L |-> IF l < L THEN l + 1 ELSE -1]

\* Network::Network.
Construct ==
  /\ phase = "new"
  /\ LET ls == IF impl = "hpp"
               THEN layers \o <<SoftMaxLayer(config.softMaxSize,
                                             config.lastLayerSize)>>
               ELSE layers
         L == Len(ls)
         bad == RejectedAt(impl, ndebug, ls)
         \* the constructor stops at the first rejected setInputs
         stop == IF bad = {} THEN L + 1 ELSE Min(bad)
         why == IF bad = {} THEN "none"
                ELSE setInputsFault(impl, ls[stop], LayerAt(ls, stop - 1))
     IN /\ layers' = ls
        /\ inputs' = [l \in 1 .. L |-> IF l < stop THEN l - 1 ELSE -1]
        /\ outputs' = IF bad = {} THEN setOutputsLoop(L)
                      ELSE [l \in 1 .. L |-> -1]
        /\ weights' = [l \in 1 .. L |->
                         IF l < stop /\ Trainable(ls[l]) THEN 0 ELSE -1]
        /\ bias' = [l \in 1 .. L |->
                      IF l < stop /\ Trainable(ls[l]) THEN 0 ELSE -1]
        /\ fault' = why
        /\ \E o \in Outcomes(impl, ndebug, why) :
             phase' = IF o = "ok" THEN "idle" ELSE o
  /\ UNCHANGED callVars
  /\ UNCHANGED <<impl, ndebug, config, params, numImages, epoch, mbStart,
                 pc, log, writes, endIdx, endLog, evalQueue, evalKind,
                 evalStart, evalPending>>

\* ------------------------------------------------- the layers' operations

Op(name, l) == [op |-> name, layer |-> l]

\* The largest flat index getIndex yields for coordinates inside shape s.
maxIndex(s, dimX, dimY) ==
  ((dimX * dimY) * (s[3] - 1)) + (dimX * (s[2] - 1)) + (s[1] - 1)

\* Whether every coordinate below want lies inside the extents have.
Within(want, have) ==
  /\ Len(want) = Len(have)
  /\ \A k \in 1 .. Len(want) : want[k] <= have[k]

\* layer->feedForward(mb), layer->endBatch(n): both read every predecessor
\* neuron the layer declares, by index (1-D layers) or by coordinate.
readInputsFault(im, layer, pred) ==
  CASE layer.type \in {"FC", "SoftMax"} ->
         IF Unsupported(im, pred.type, "getNeuron1") THEN "unsupported"
         ELSE "none"
    [] layer.type = "Conv" ->
         IF Unsupported(im, pred.type, "getNeuron3") THEN "unsupported"
         ELSE IF ~Within(<<layer.inputX, layer.inputY, layer.kernelZ>>,
                         Shape(pred)) THEN "range"
         ELSE "none"
    [] layer.type = "Pool" ->
         IF Unsupported(im, pred.type, "getNeuron3") THEN "unsupported"
         ELSE IF ~Within(<<Shape(layer)[1] * layer.poolX,
                           Shape(layer)[2] * layer.poolY,
                           Shape(layer)[3]>>, Shape(pred)) THEN "range"
         ELSE "none"
    [] OTHER -> "unsupported"

feedForwardFault(im, layer, pred) ==
  IF Unsupported(im, layer.type, "feedForward") THEN "unsupported"
  ELSE readInputsFault(im, layer, pred)

endBatchFault(im, layer, pred) ==
  IF Unsupported(im, layer.type, "endBatch") THEN "unsupported"
  ELSE IF layer.type = "Pool" THEN "none"
  ELSE readInputsFault(im, layer, pred)

\* layer->calcBwdError(mb): the 1-D layers write bwdErrors[mb][i] for every
\* i < inputs->size(), into an array of extent prevSize.
calcBwdErrorFault(im, layer, pred) ==
  CASE Unsupported(im, layer.type, "calcBwdError") -> "unsupported"
    [] layer.type \in {"FC", "SoftMax"} ->
         IF size(pred) > layer.prevSize THEN "range" ELSE "none"
    [] OTHER -> "none"

\* getBwdError asked of layer k for every coordinate below shape s (3-D), or
\* for every index up to top (1-D).
RECURSIVE getBwdErrorFault(_, _, _, _, _)
getBwdErrorFault(im, ls, k, s, top) ==
  LET layer == ls[k]
  IN IF Len(s) = 0
     THEN \* getBwdError(index, mb)
       IF Unsupported(im, layer.type, "getBwdError1") THEN "unsupported"
       ELSE IF top >= layer.prevSize THEN "range"
       ELSE "none"
     ELSE \* getBwdError(x, y, z, mb)
       IF Unsupported(im, layer.type, "getBwdError3") THEN "unsupported"
       ELSE IF layer.type = "Conv"
       THEN IF Within(s, <<layer.inputX, layer.inputY, layer.inputZ>>)
            THEN "none" ELSE "range"
       ELSE \* MaxPoolLayer forwards the request to its own successor
         IF k = Len(ls) THEN "null"
         ELSE LET n == <<((s[1] - 1) \div layer.poolX) + 1,
                         ((s[2] - 1) \div layer.poolY) + 1, s[3]>>
                  dim == Shape(layer)
              IN IF getNumDims(im, ls[k + 1]) = 1
                 THEN getBwdErrorFault(im, ls, k + 1, <<>>,
                                       maxIndex(n, dim[1], dim[2]))
                 ELSE getBwdErrorFault(im, ls, k + 1,
                                       IF im = "hpp" THEN n ELSE s, 0)

\* layer->backPropogate(mb): every neuron asks the successor for its error.
backPropogateFault(im, ls, l) ==
  LET layer == ls[l]
      s == Shape(layer)
  IN CASE Unsupported(im, layer.type, "backPropogate") -> "unsupported"
       [] layer.type = "Pool" -> "none"
       [] l = Len(ls) -> "null"
       [] layer.type = "FC" ->
            getBwdErrorFault(im, ls, l + 1, <<>>, layer.layerSize - 1)
       [] layer.type = "Conv" ->
            IF getNumDims(im, ls[l + 1]) = 1
            THEN \* main4.cpp's ConvLayer hands its neurons shape()[0] as dimY
                 getBwdErrorFault(im, ls, l + 1, <<>>,
                                  maxIndex(s, s[1],
                                           IF im = "hpp" THEN s[2] ELSE s[1]))
            ELSE getBwdErrorFault(im, ls, l + 1, s, 0)
       [] OTHER -> "unsupported"

\* The output layer's computeOutputError, computeOutputCost, readOutput.
outputOpFault(im, layer, name) ==
  IF Unsupported(im, layer.type, name) THEN "unsupported" ELSE "none"

\* What operation o runs into for image number idx of a set of n images.
OpFault(im, ls, o, idx, n) ==
  LET l == o.layer
  IN CASE o.op = "setImage" -> IF idx >= n THEN "pastEnd" ELSE "none"
       [] o.op = "feedForward" ->
            feedForwardFault(im, ls[l], LayerAt(ls, l - 1))
       [] o.op = "calcBwdError" ->
            calcBwdErrorFault(im, ls[l], LayerAt(ls, l - 1))
       [] o.op = "backPropogate" -> backPropogateFault(im, ls, l)
       [] o.op = "endBatch" -> endBatchFault(im, ls[l], LayerAt(ls, l - 1))
       [] OTHER -> outputOpFault(im, ls[l], o.op)

\* The scratch locations <<layer, array, slot>> operation o writes for slot mb.
Writes(ls, o, mb) ==
  LET l == o.layer
  IN CASE o.op = "setImage" -> {<<0, "activations", mb>>}
       [] o.op = "feedForward" ->
            IF ls[l].type = "Pool" THEN {<<l, "activations", mb>>}
            ELSE {<<l, "weightedInputs", mb>>, <<l, "activations", mb>>}
       [] o.op = "computeOutputError" -> {<<l, "errors", mb>>}
       [] o.op = "calcBwdError" ->
            IF ls[l].type = "Pool" THEN {} ELSE {<<l, "bwdErrors", mb>>}
       [] o.op = "backPropogate" ->
            IF ls[l].type = "Pool" THEN {} ELSE {<<l, "errors", mb>>}
       [] OTHER -> {}

\* A variant in which the forward pass adjusts the parameters as well.
updatedInForward(ls, o, ws) ==
  IF o.op \in {"endBatch", "feedForward"} /\ Trainable(ls[o.layer])
  THEN [ws EXCEPT ![o.layer] = @ + 1]
  ELSE ws

\* A parameter tensor after operation o: endBatch on a layer with weights
\* applies one more update to it, every other operation leaves it alone.
updated(ls, o, ws) ==
  IF o.op = "endBatch" /\ Trainable(ls[o.layer])
  THEN [ws EXCEPT ![o.layer] = @ + 1]
  ELSE ws

RECURSIVE updatedBy(_, _, _)
\* A parameter tensor after a sequence of operations.
updatedBy(ls, ops, ws) ==
  IF ops = <<>> THEN ws
  ELSE updatedBy(ls, Tail(ops), updated(ls, Head(ops), ws))

\* ------------------------------------------------------ the passes (Network)

RECURSIVE feedForward(_, _)
\* Network::feedForward: every layer in chain order, from layer l on.
feedForward(l, L) ==
  IF l > L THEN <<>> ELSE <<Op("feedForward", l)>> \o feedForward(l + 1, L)

RECURSIVE hiddenBackwardSwapped(_)
\* A variant of the loop that fills the predecessor's buffer first.
hiddenBackwardSwapped(l) ==
  IF l < 2 THEN <<>>
  ELSE <<Op("calcBwdError", l), Op("backPropogate", l)>>
       \o hiddenBackwardSwapped(l - 1)

RECURSIVE hiddenBackward(_)
\* The loop of Network::backPropogate: for (i = size - 2; i > 0; --i).
hiddenBackward(l) ==
  IF l < 2 THEN <<>>
  ELSE <<Op("backPropogate", l), Op("calcBwdError", l)>>
       \o hiddenBackward(l - 1)

\* Network::backPropogate(image, label, mb): the operations it invokes.
backPropogate(L) ==
  <<Op("setImage", 0)>> \o feedForward(1, L)
  \o <<Op("computeOutputError", L), Op("calcBwdError", L)>>
  \o hiddenBackward(L - 1)
  \o <<Op("backPropogate", 1)>>

\* Network::testImage and Network::imageCost (Network.hpp), the loop
\* bodies of evaluateAccuracy and evaluateTotalCost (main4.cpp).
testImage(L) ==
  <<Op("setImage", 0)>> \o feedForward(1, L) \o <<Op("readOutput", L)>>

imageCost(L) ==
  <<Op("setImage", 0)>> \o feedForward(1, L) \o <<Op("computeOutputCost", L)>>

\* The faults a sequence of operations runs into, in order.
RECURSIVE Faults(_, _, _, _, _)
Faults(im, ls, ops, idx, n) ==
  IF ops = <<>> THEN <<>>
  ELSE LET f == OpFault(im, ls, Head(ops), idx, n)
       IN (IF f = "none" THEN <<>> ELSE <<f>>)
          \o Faults(im, ls, Tail(ops), idx, n)

\* A variant in which every worker uses slot 0.
SlotOfFirst(w) == 0

\* updateMiniBatch's lambda: worker i runs backPropogate(.., .., i).
SlotOf(w) == w

\* A variant without the barrier: one finished worker is enough.
SomeWorkerDone == \E w \in Slots : pc[w] > Len(backPropogate(Len(layers)))

\* parallel_for returns when every worker has finished its backward pass.
AllWorkersDone == \A w \in Slots : pc[w] > Len(backPropogate(Len(layers)))

\* The numTrainingImages SGD hands to updateMiniBatch.
numTrainingImagesArg(im, n) == IF im = "hpp" THEN MbSize ELSE n

\* The layer endBatch index k names, counting k = L down to 1.
endBatchLayer(k) == k

\* SGD: the top of an epoch (the shuffle) and of its mini-batch loop.
StartEpoch ==
  /\ phase = "idle"
  /\ epoch < NumEpochs
  /\ phase' = "loop"
  /\ mbStart' = 0
  /\ UNCHANGED callVars
  /\ UNCHANGED <<impl, ndebug, config, params, numImages, layers, inputs,
                 outputs, weights, bias, fault, epoch, pc, log, writes,
                 endIdx, endLog, evalQueue, evalKind, evalStart, evalPending>>

\* SGD's loop test holds: updateMiniBatch starts its parallel_for.
BeginMiniBatch ==
  /\ phase = "loop"
  /\ mbStart < numImages
  /\ phase' = "updateMiniBatch"
  /\ pc' = [w \in Slots |-> 1]
  /\ log' = [w \in Slots |-> <<>>]
  /\ writes' = {}
  /\ endIdx' = Len(layers)
  /\ endLog' = <<>>
  /\ UNCHANGED callVars
  /\ UNCHANGED <<impl, ndebug, config, params, numImages, layers, inputs,
                 outputs, weights, bias, fault, epoch, mbStart, evalQueue,
                 evalKind, evalStart, evalPending>>

\* One layer operation of worker w's backward pass.  main4.cpp runs the
\* passes of a mini-batch one after the other.
WorkerStep(w) ==
  /\ phase = "updateMiniBatch"
  /\ pc[w] <= Len(backPropogate(Len(layers)))
  /\ impl = "main4" => \A v \in Slots : v < w =>
                          pc[v] > Len(backPropogate(Len(layers)))
  /\ LET o == backPropogate(Len(layers))[pc[w]]
         f == OpFault(impl, layers, o, mbStart + w, numImages)
     IN /\ log' = [log EXCEPT ![w] = Append(@, o)]
        /\ \E r \in Outcomes(impl, ndebug, f) :
             IF r = "ok"
             THEN /\ pc' = [pc EXCEPT ![w] = @ + 1]
                  /\ writes' = writes \cup
                       { <<w, loc>> : loc \in Writes(layers, o, SlotOf(w)) }
                  /\ weights' = updated(layers, o, weights)
                  /\ bias' = updated(layers, o, bias)
                  /\ UNCHANGED <<phase, fault>>
             ELSE /\ phase' = r
                  /\ fault' = f
                  /\ UNCHANGED <<pc, writes, weights, bias>>
  /\ UNCHANGED callVars
  /\ UNCHANGED <<impl, ndebug, config, params, numImages, layers, inputs,
                 outputs, epoch, mbStart, endIdx, endLog, evalQueue,
                 evalKind, evalStart, evalPending>>

\* updateMiniBatch's second loop: layers[i]->endBatch(numTrainingImages).
EndBatch ==
  /\ phase = "updateMiniBatch"
  /\ AllWorkersDone
  /\ endIdx >= 1
  /\ LET l == endBatchLayer(endIdx)
         f == OpFault(impl, layers, Op("endBatch", l), 0, numImages)
     IN /\ endLog' = Append(endLog,
                            [layer |-> l,
                             numTrainingImages |->
                               numTrainingImagesArg(impl, numImages)])
        /\ \E r \in Outcomes(impl, ndebug, f) :
             IF r = "ok"
             THEN /\ endIdx' = endIdx - 1
                  /\ weights' = updated(layers, Op("endBatch", l), weights)
                  /\ bias' = updated(layers, Op("endBatch", l), bias)
                  /\ UNCHANGED <<phase, fault>>
             ELSE /\ phase' = r
                  /\ fault' = f
                  /\ UNCHANGED <<endIdx, weights, bias>>
  /\ UNCHANGED callVars
  /\ UNCHANGED <<impl, ndebug, config, params, numImages, layers, inputs,
                 outputs, epoch, mbStart, pc, log, writes, evalQueue,
                 evalKind, evalStart, evalPending>>

\* The evaluations SGD runs at a monitoring point, in the order it tests
\* the toggles.
Monitored(p) ==
  (IF p.monitorEvaluationAccuracy THEN <<"accuracy">> ELSE <<>>)
  \o (IF p.monitorEvaluationCost THEN <<"cost">> ELSE <<>>)
  \o (IF p.monitorTrainingAccuracy THEN <<"accuracy">> ELSE <<>>)
  \o (IF p.monitorTrainingCost THEN <<"cost">> ELSE <<>>)

\* updateMiniBatch has returned.  Network.hpp monitors when
\* i % monitorInterval == 0; main4.cpp goes on to the next mini-batch.
AfterMiniBatch ==
  /\ phase = "updateMiniBatch"
  /\ AllWorkersDone
  /\ endIdx = 0
  /\ IF impl = "hpp"
     THEN /\ phase' = "monitor"
          /\ evalQueue' = IF mbStart % params.monitorInterval = 0
                          THEN Monitored(params) ELSE <<>>
          /\ UNCHANGED mbStart
     ELSE /\ phase' = "loop"
          /\ mbStart' = mbStart + MbSize
          /\ UNCHANGED evalQueue
  /\ UNCHANGED callVars
  /\ UNCHANGED <<impl, ndebug, config, params, numImages, layers, inputs,
                 outputs, weights, bias, fault, epoch, pc, log, writes,
                 endIdx, endLog, evalKind, evalStart, evalPending>>

\* The mini-batch loop ends.  main4.cpp monitors here, once per epoch.
EndEpoch ==
  /\ phase = "loop"
  /\ mbStart >= numImages
  /\ IF impl = "hpp"
     THEN /\ phase' = "idle"
          /\ epoch' = epoch + 1
          /\ UNCHANGED evalQueue
     ELSE /\ phase' = "monitor"
          /\ evalQueue' = Monitored(params)
          /\ UNCHANGED epoch
  /\ UNCHANGED callVars
  /\ UNCHANGED <<impl, ndebug, config, params, numImages, layers, inputs,
                 outputs, weights, bias, fault, mbStart, pc, log, writes,
                 endIdx, endLog, evalKind, evalStart, evalPending>>

\* Network.hpp evaluates mbSize images at a time, one per slot, in
\* parallel; main4.cpp one image at a time, in slot 0.
evalSlots(im) == IF im = "hpp" THEN Slots ELSE {0}

evalStride(im) == IF im = "hpp" THEN MbSize ELSE 1

\* evaluateAccuracy / evaluateTotalCost is called.
BeginEvaluate ==
  /\ phase = "monitor"
  /\ evalQueue # <<>>
  /\ evalKind' = Head(evalQueue)
  /\ evalQueue' = Tail(evalQueue)
  /\ evalStart' = 0
  /\ evalPending' = evalSlots(impl)
  /\ phase' = "evaluate"
  /\ UNCHANGED callVars
  /\ UNCHANGED <<impl, ndebug, config, params, numImages, layers, inputs,
                 outputs, weights, bias, fault, epoch, mbStart, pc, log,
                 writes, endIdx, endLog>>

\* testImage / imageCost for the image of slot mb.
EvaluateImage(mb) ==
  /\ phase = "evaluate"
  /\ evalStart < numImages
  /\ mb \in evalPending
  /\ LET ops == IF evalKind = "accuracy" THEN testImage(Len(layers))
                ELSE imageCost(Len(layers))
         fs == Faults(impl, layers, ops, evalStart + mb, numImages)
         f == IF fs = <<>> THEN "none" ELSE Head(fs)
     IN \E r \in Outcomes(impl, ndebug, f) :
          IF r = "ok"
          THEN /\ evalPending' = evalPending \ {mb}
               /\ weights' = updatedBy(layers, ops, weights)
               /\ bias' = updatedBy(layers, ops, bias)
               /\ UNCHANGED <<phase, fault>>
          ELSE /\ phase' = r
               /\ fault' = f
               /\ UNCHANGED <<evalPending, weights, bias>>
  /\ UNCHANGED callVars
  /\ UNCHANGED <<impl, ndebug, config, params, numImages, layers, inputs,
                 outputs, epoch, mbStart, pc, log, writes, endIdx, endLog,
                 evalQueue, evalKind, evalStart>>

\* The evaluation's loop moves on to the next range of images, or returns.
EvaluateNext ==
  /\ phase = "evaluate"
  /\ evalPending = {} \/ evalStart >= numImages
  /\ IF evalStart >= numImages
     THEN /\ phase' = "monitor"
          /\ UNCHANGED <<evalStart, evalPending>>
     ELSE /\ evalStart' = evalStart + evalStride(impl)
          /\ evalPending' = evalSlots(impl)
          /\ UNCHANGED phase
  /\ UNCHANGED callVars
  /\ UNCHANGED <<impl, ndebug, config, params, numImages, layers, inputs,
                 outputs, weights, bias, fault, epoch, mbStart, pc, log,
                 writes, endIdx, endLog, evalQueue, evalKind>>

\* Monitoring is over: the next mini-batch (Network.hpp) or epoch (main4.cpp).
AfterMonitor ==
  /\ phase = "monitor"
  /\ evalQueue = <<>>
  /\ IF impl = "hpp"
     THEN /\ phase' = "loop"
          /\ mbStart' = mbStart + MbSize
          /\ UNCHANGED epoch
     ELSE /\ phase' = "idle"
          /\ epoch' = epoch + 1
          /\ UNCHANGED mbStart
  /\ UNCHANGED callVars
  /\ UNCHANGED <<impl, ndebug, config, params, numImages, layers, inputs,
                 outputs, weights, bias, fault, pc, log, writes, endIdx,
                 endLog, evalQueue, evalKind, evalStart, evalPending>>

\* ------------------------------------------------------ the training program

\* No function is being called.
NoFrame == [fn |-> "none"]

\* No single call is being made.
NoCall ==
  /\ frame = NoFrame
  /\ poolLayer = NoLayer
  /\ poolMb = 0
  /\ poolIn = <<>>
  /\ poolOut = <<>>
  /\ poolDone = FALSE
  /\ outActs = <<>>
  /\ outMb = 0
  /\ outResult = -1
  /\ callType = "none"
  /\ callOp = "none"
  /\ callResult = "pending"

\* No network is being trained.
NoNetwork ==
  /\ config = Net(<<>>, 2, 4)
  /\ params = Main4Params
  /\ numImages = 1
  /\ layers = <<>>
  /\ inputs = <<>>
  /\ outputs = <<>>
  /\ weights = <<>>
  /\ bias = <<>>
  /\ phase = "none"
  /\ fault = "none"
  /\ epoch = 0
  /\ mbStart = 0
  /\ pc = [w \in Slots |-> 1]
  /\ log = [w \in Slots |-> <<>>]
  /\ writes = {}
  /\ endIdx = 0
  /\ endLog = <<>>
  /\ evalQueue = <<>>
  /\ evalKind = "none"
  /\ evalStart = 0
  /\ evalPending = {}

\* A declared network, a build and a data set; nothing is constructed yet.
Init ==
  /\ impl \in {"hpp", "main4"}
  /\ ndebug \in BOOLEAN
  /\ config \in NetConfigs
  /\ params \in (IF impl = "hpp" THEN ParamsSet ELSE {Main4Params})
  /\ numImages \in 1 .. MaxImages
  /\ layers = DeclaredLayers(impl, config)
  /\ inputs = <<>>
  /\ outputs = <<>>
  /\ weights = <<>>
  /\ bias = <<>>
  /\ phase = "new"
  /\ fault = "none"
  /\ epoch = 0
  /\ mbStart = 0
  /\ pc = [w \in Slots |-> 1]
  /\ log = [w \in Slots |-> <<>>]
  /\ writes = {}
  /\ endIdx = 0
  /\ endLog = <<>>
  /\ evalQueue = <<>>
  /\ evalKind = "none"
  /\ evalStart = 0
  /\ evalPending = {}
  /\ NoCall

Next ==
  \/ Construct
  \/ StartEpoch
  \/ BeginMiniBatch
  \/ \E w \in Slots : WorkerStep(w)
  \/ EndBatch
  \/ AfterMiniBatch
  \/ EndEpoch
  \/ BeginEvaluate
  \/ \E mb \in Slots : EvaluateImage(mb)
  \/ EvaluateNext
  \/ AfterMonitor

Spec == Init /\ [][Next]_vars

\* ------------------------------------------------ properties of training

\* C1: during updateMiniBatch, in every interleaving of the backward passes,
\* the worker of sample i writes only slot i of the weightedInputs,
\* activations and errors arrays and only row i of the bwdErrors buffers, and
\* no location is written by two workers.
C1_WorkerWritesOwnSlot ==
  /\ \A e \in writes :
       /\ e[2][2] \in {"weightedInputs", "activations", "errors", "bwdErrors"}
       /\ e[2][3] = e[1]
  /\ \A e, g \in writes : e[2] = g[2] => e[1] = g[1]

\* Every worker is in the middle of its pass and has filled a bwdErrors row.
C1_WorkersMidPass ==
  /\ impl = "hpp"
  /\ phase = "updateMiniBatch"
  /\ \A w \in Slots :
       /\ log[w] # <<>>
       /\ log[w][Len(log[w])].op # "backPropogate"
       /\ \E e \in writes : e[1] = w /\ e[2][2] = "bwdErrors"

\* C2: endBatch is invoked on a layer only after every backward pass of the
\* mini-batch has completed, and then once on every layer, from the last
\* layer to the first.
C2_EndBatchAfterBarrierLastToFirst ==
  /\ endLog # <<>> =>
       \A w \in Slots :
         /\ log[w] # <<>>
         /\ log[w][Len(log[w])] = Op("backPropogate", 1)
         /\ pc[w] = Len(log[w]) + 1
  /\ \A k \in 1 .. Len(endLog) : endLog[k].layer = Len(layers) - k + 1
  /\ (endLog # <<>> /\ endIdx = 0 /\ phase \notin {"fatal", "undefined"})
       => Len(endLog) = Len(layers)

\* updateMiniBatch has returned for a chain of three layers.
C2_ThreeLayersUpdated ==
  /\ impl = "hpp"
  /\ phase = "updateMiniBatch"
  /\ endIdx = 0
  /\ Len(layers) = 3
  /\ Len(endLog) = 3

\* C3: after construction only endBatch changes a layer's weights or biases;
\* the operations of the passes and of the evaluations leave them unchanged.
C3_OnlyEndBatchChangesParameters ==
  [][ (weights' # weights \/ bias' # bias) =>
        \/ phase = "new"
        \/ /\ phase = "updateMiniBatch"
           /\ Len(endLog') = Len(endLog) + 1
           /\ \A l \in DOMAIN weights :
                l # endLog'[Len(endLog')].layer =>
                  weights'[l] = weights[l] /\ bias'[l] = bias[l] ]_vars

\* An evaluation of every slot has run on parameters updated by endBatch.
C3_EvaluatedAfterUpdate ==
  /\ phase = "evaluate"
  /\ evalPending = {}
  /\ evalStart + MbSize >= numImages
  /\ \E l \in DOMAIN weights : weights[l] = 1 /\ bias[l] = 1

\* C4: a backward pass invokes, in this order: setImage, feedForward on every
\* layer in chain order, the output layer's computeOutputError and
\* calcBwdError, then backPropogate followed by calcBwdError on each layer
\* from the last hidden one down to the second, and backPropogate on the
\* first layer; so a layer computes its error only after its successor's
\* calcBwdError of the same pass, and the input layer is only given the image.
C4_BackwardPassOrder ==
  \A w \in Slots :
    LET L == Len(layers)
        h == IF L > 2 THEN L - 2 ELSE 0
        expected(k) ==
          CASE k = 1 -> [op |-> "setImage", layer |-> 0]
            [] k \in 2 .. (L + 1) -> [op |-> "feedForward", layer |-> k - 1]
            [] k = L + 2 -> [op |-> "computeOutputError", layer |-> L]
            [] k = L + 3 -> [op |-> "calcBwdError", layer |-> L]
            [] k \in (L + 4) .. (L + 3 + (2 * h)) ->
                 [op |-> IF (k - (L + 3)) % 2 = 1 THEN "backPropogate"
                                                  ELSE "calcBwdError",
                  layer |-> L - ((k - (L + 2)) \div 2)]
            [] OTHER -> [op |-> "backPropogate", layer |-> 1]
    IN /\ Len(log[w]) <= L + 4 + (2 * h)
       /\ \A k \in 1 .. Len(log[w]) :
            /\ log[w][k] = expected(k)
            /\ (log[w][k].op = "backPropogate" /\ log[w][k].layer < L) =>
                 \E j \in 1 .. (k - 1) :
                   /\ log[w][j].op = "calcBwdError"
                   /\ log[w][j].layer = log[w][k].layer + 1
            /\ log[w][k].layer = 0 => log[w][k].op = "setImage"

\* A worker has completed the pass through a chain of three layers.
C4_PassThroughThreeLayers ==
  \E w \in Slots :
    /\ Len(layers) = 3
    /\ Len(log[w]) = 9
    /\ pc[w] = 10

\* C5: the training-set size handed to every endBatch is the number of
\* training samples in the data set.
C5_EndBatchGetsDataSetSize ==
  \A k \in 1 .. Len(endLog) : endLog[k].numTrainingImages = numImages

\* Network.hpp has handed endBatch the mini-batch size for a larger data set.
C5_MiniBatchSizeHanded ==
  /\ impl = "hpp"
  /\ numImages = 2 * MbSize
  /\ endLog # <<>>
  /\ endLog[1].numTrainingImages = MbSize

\* C6: construction stops fatally on every layer whose declared input size
\* differs from its predecessor's neuron count, so no network with such a
\* layer is ever returned.
C6_NoMismatchingNetworkReturned ==
  phase \notin {"new", "fatal", "undefined"} =>
    \A l \in 1 .. Len(layers) :
      declaredInputSize(layers[l]) = size(LayerAt(layers, l - 1))

\* A build with the checks compiled in has returned a network whose
\* fully-connected layer declares a different input size.
C6_MismatchingNetworkInUse ==
  /\ ~ndebug
  /\ phase = "updateMiniBatch"
  /\ \E l \in 1 .. Len(layers) :
       /\ layers[l].type = "FC"
       /\ layers[l].prevSize # size(LayerAt(layers, l - 1))

\* C7 as stated: adjacent layers of different dimensionality interoperate in
\* both directions, a 1-D layer feeding a volumetric one and a volumetric
\* layer feeding a 1-D one: the passes reach no fatal or unsupported state.
C7_BothDirectionsInteroperate ==
  LET flat(l) == layers[l].type \in {"FC", "SoftMax"}
      vol(l) == layers[l].type \in {"Conv", "Pool"}
  IN (/\ impl = "hpp"
      /\ phase # "new"
      /\ config \in MatchingNets
      /\ numImages % MbSize = 0
      /\ \E l \in 1 .. (Len(layers) - 1) :
           (flat(l) /\ vol(l + 1)) \/ (vol(l) /\ flat(l + 1)))
     => phase \notin {"fatal", "undefined"}

\* C7, amended: in Network.hpp a volumetric layer feeding a 1-D layer
\* interoperates, forward and backward, without a fatal or unsupported
\* state; with a 1-D layer feeding a volumetric layer, invoking the
\* volumetric layer's feedForward ends in a fatal or undefined state.
C7_VolumetricFeedsFlatOnly ==
  LET flat(l) == layers[l].type \in {"FC", "SoftMax"}
      vol(l) == layers[l].type \in {"Conv", "Pool"}
      flatToVol == \E l \in 1 .. (Len(layers) - 1) : flat(l) /\ vol(l + 1)
      volToFlat == \E l \in 1 .. (Len(layers) - 1) : vol(l) /\ flat(l + 1)
  IN /\ (/\ impl = "hpp"
          /\ phase # "new"
          /\ config \in MatchingNets
          /\ numImages % MbSize = 0
          /\ volToFlat
          /\ ~flatToVol)
         => phase \notin {"fatal", "undefined"}
     /\ \A w \in Slots : \A k \in 1 .. Len(log[w]) :
          (/\ impl = "hpp"
           /\ log[w][k].op = "feedForward"
           /\ log[w][k].layer > 1
           /\ vol(log[w][k].layer)
           /\ flat(log[w][k].layer - 1))
          => phase \in {"fatal", "undefined"}

\* Network.hpp has trained a mini-batch through a convolutional layer that
\* feeds a fully-connected layer.
C7_ConvFeedsFullyConnected ==
  /\ impl = "hpp"
  /\ phase = "updateMiniBatch"
  /\ endIdx = 0
  /\ Len(layers) = 3
  /\ layers[1].type = "Conv"
  /\ layers[2].type = "FC"

\* ------------------------------------------------- calls of unsupported methods

\* The call of one method on one layer variant.
Call ==
  /\ callResult = "pending"
  /\ callType # "none"
  /\ callResult' \in Outcomes(impl, ndebug,
                               IF Unsupported(impl, callType, callOp)
                               THEN "unsupported" ELSE "none")
  /\ UNCHANGED <<poolLayer, poolMb, poolIn, poolOut, poolDone, outActs,
                 outMb, outResult, callType, callOp, frame>>
  /\ UNCHANGED netVars

InitCall ==
  /\ frame = NoFrame
  /\ impl \in {"hpp", "main4"}
  /\ ndebug \in BOOLEAN
  /\ NoNetwork
  /\ poolLayer = NoLayer
  /\ poolMb = 0
  /\ poolIn = <<>>
  /\ poolOut = <<>>
  /\ poolDone = FALSE
  /\ outActs = <<>>
  /\ outMb = 0
  /\ outResult = -1
  /\ callType \in LayerTypes(impl)
  /\ callOp \in OpsOf(impl)
  /\ callResult = "pending"

NextCall == Call

SpecCall == InitCall /\ [][NextCall]_vars

\* C8: invoking an operation a layer variant does not support stops the
\* program fatally instead of returning a value or going on: the listed
\* operations of the input layer, setOutputs and backPropogate of the
\* softmax layer, the 3-D getBwdError and getNeuron of the fully-connected
\* and softmax layers, the 1-D getBwdError of the convolutional and
\* max-pooling layers.
C8_UnsupportedCallIsFatal ==
  LET claimed ==
        \/ /\ callType = "Input"
           /\ callOp \in {"initialiseDefaultWeights", "feedForward",
                           "calcBwdError", "backPropogate", "endBatch",
                           "setInputs", "setOutputs", "getBwdError1",
                           "getBwdError3"}
        \/ callType = "SoftMax" /\ callOp \in {"setOutputs", "backPropogate"}
        \/ /\ callType \in {"FC", "SoftMax"}
           /\ callOp \in {"getBwdError3", "getNeuron3"}
        \/ callType \in {"Conv", "Pool"} /\ callOp = "getBwdError1"
  IN (claimed /\ callResult # "pending") => callResult = "fatal"

\* A build with NDEBUG has gone past an unsupported call on the input layer.
C8_UnsupportedCallNotFatal ==
  /\ ndebug
  /\ callType = "Input"
  /\ callOp = "feedForward"
  /\ callResult = "undefined"

\* ------------------------------------------------ MaxPoolLayer::feedForward

\* Activations are modelled by their rank among the floats: 0 is 0.0f,
\* 1 a positive value below numeric_limits<float>::min(), FltMin that
\* constant itself, and the ranks above it the larger values.

\* std::max
stdMax(a, b) == IF a < b THEN b ELSE a

\* The coordinates <<x, y, z>> below the extents s.
Coords(s) ==
  { <<x, y, z>> : x \in 0 .. (s[1] - 1), y \in 0 .. (s[2] - 1),
                  z \in 0 .. (s[3] - 1) }

\* The predecessor coordinates the (a, b) loops visit for neuron n, in order.
poolWindow(layer, n) ==
  [k \in 1 .. (layer.poolX * layer.poolY) |->
     <<(n[1] * layer.poolX) + ((k - 1) \div layer.poolY),
       (n[2] * layer.poolY) + ((k - 1) % layer.poolY),
       n[3]>>]

RECURSIVE poolNeuron(_, _, _, _)
\* The (a, b) loops for one neuron: every iteration stores
\* max(weightedInput, input) in the activation; weightedInput itself keeps
\* the value it was initialised with.
poolNeuron(win, in, weightedInput, activation) ==
  IF win = <<>> THEN activation
  ELSE poolNeuron(Tail(win), in, weightedInput,
                  stdMax(weightedInput, in[Head(win)]))

\* MaxPoolLayer::feedForward(mb)
MaxPoolFeedForward ==
  /\ ~poolDone
  /\ poolLayer # NoLayer
  /\ poolOut' = [poolOut EXCEPT ![poolMb] =
                   [n \in Coords(Shape(poolLayer)) |->
                      poolNeuron(poolWindow(poolLayer, n), poolIn, FltMin,
                                 @[n])]]
  /\ poolDone' = TRUE
  /\ UNCHANGED <<poolLayer, poolMb, poolIn, outActs, outMb, outResult,
                 callType, callOp, callResult, frame>>
  /\ UNCHANGED netVars

\* Pooling layers over a 2 x 2 x 1 predecessor.
PoolLayers ==
  { MaxPoolLayer(2, 2, 2, 2, 1), MaxPoolLayer(2, 1, 2, 2, 1),
    MaxPoolLayer(1, 2, 2, 2, 1), MaxPoolLayer(1, 1, 2, 2, 1) }

\* A pooling layer, a slot and the predecessor's activations in that slot;
\* the layer's own activations have not been written (-1).
InitPool ==
  /\ frame = NoFrame
  /\ impl \in {"hpp", "main4"}
  /\ ndebug = FALSE
  /\ NoNetwork
  /\ poolLayer \in PoolLayers
  /\ poolMb \in Slots
  /\ poolIn \in [Coords(<<poolLayer.inputX, poolLayer.inputY,
                           poolLayer.inputZ>>) -> Values]
  /\ poolOut = [mb \in Slots |-> [n \in Coords(Shape(poolLayer)) |-> -1]]
  /\ poolDone = FALSE
  /\ outActs = <<>>
  /\ outMb = 0
  /\ outResult = -1
  /\ callType = "none"
  /\ callOp = "none"
  /\ callResult = "pending"

NextPool == MaxPoolFeedForward

SpecPool == InitPool /\ [][NextPool]_vars

\* C9: after feedForward every max-pooling neuron's activation, in the slot
\* of the call, is the maximum of the predecessor activations over its
\* poolX-by-poolY window: it equals an input of the window and no input of
\* the window exceeds it.
C9_OutputIsWindowMax ==
  poolDone =>
    \A n \in Coords(Shape(poolLayer)) :
      LET window ==
            { <<(n[1] * poolLayer.poolX) + a, (n[2] * poolLayer.poolY) + b,
                n[3]>> : a \in 0 .. (poolLayer.poolX - 1),
                         b \in 0 .. (poolLayer.poolY - 1) }
      IN /\ \E c \in window : poolOut[poolMb][n] = poolIn[c]
         /\ \A c \in window : poolIn[c] <= poolOut[poolMb][n]

\* A 2 x 2 window whose largest input comes first: the neuron ends with
\* numeric_limits<float>::min().
C9_LastInputDecides ==
  /\ poolDone
  /\ poolLayer = MaxPoolLayer(2, 2, 2, 2, 1)
  /\ poolIn[<<0, 0, 0>>] = MaxValue
  /\ poolIn[<<1, 1, 0>>] = 0
  /\ poolOut[poolMb][<<0, 0, 0>>] = FltMin

\* --------------------------------------------------------------- readOutput

\* The activations SoftMaxLayer::feedForward leaves in a slot: each is
\* exp(weightedInput) / sum, so they add up to 1 and the largest is at
\* least 1 / size, or, when the sum overflows, they are all 0.  The sigmoid
\* outputs of main4.cpp's output layer are any values from 0.0f to 1.0f.
OutputActivations(im, n) ==
  IF im = "hpp"
  THEN { v \in [1 .. n -> Values] :
           \/ \E i \in 1 .. n : v[i] > FltMin
           \/ \A i \in 1 .. n : v[i] = 0 }
  ELSE [1 .. n -> Values]

RECURSIVE readOutputLoop(_, _, _, _)
\* The loop of readOutput from neuron i (counted from 1) on.
readOutputLoop(acts, i, result, max) ==
  IF i > Len(acts) THEN result
  ELSE IF acts[i] > max
       THEN readOutputLoop(acts, i + 1, i - 1, acts[i])
       ELSE readOutputLoop(acts, i + 1, result, max)

\* A variant that reads slot 0 whatever slot it is called for.
readOutputSlot0(im, acts, mb) ==
  readOutputLoop(acts[0], 1, 0, IF im = "hpp" THEN FltMin ELSE 0)

\* SoftMaxLayer::readOutput(mb) of Network.hpp, and
\* FullyConnectedLayer::readOutput() of main4.cpp, which reads slot 0.
readOutput(im, acts, mb) ==
  IF im = "hpp" THEN readOutputLoop(acts[mb], 1, 0, FltMin)
  ELSE readOutputLoop(acts[0], 1, 0, 0)

\* The call of readOutput.
ReadOutput ==
  /\ outResult = -1
  /\ outActs # <<>>
  /\ outResult' = readOutput(impl, outActs, outMb)
  /\ UNCHANGED <<poolLayer, poolMb, poolIn, poolOut, poolDone, outActs,
                 outMb, callType, callOp, callResult, frame>>
  /\ UNCHANGED netVars

\* An output layer after a forward pass for slot outMb; the other slots
\* hold the activations of another sample (here: the same in reverse).
InitReadOutput ==
  /\ frame = NoFrame
  /\ impl \in {"hpp", "main4"}
  /\ ndebug = FALSE
  /\ NoNetwork
  /\ poolLayer = NoLayer
  /\ poolMb = 0
  /\ poolIn = <<>>
  /\ poolOut = <<>>
  /\ poolDone = FALSE
  /\ outMb \in evalSlots(impl)
  /\ \E n \in 1 .. MaxOutputs : \E v \in OutputActivations(impl, n) :
       outActs = [mb \in Slots |->
                    IF mb = outMb THEN v
                    ELSE [i \in 1 .. n |-> v[n + 1 - i]]]
  /\ outResult = -1
  /\ callType = "none"
  /\ callOp = "none"
  /\ callResult = "pending"

NextReadOutput == ReadOutput

SpecReadOutput == InitReadOutput /\ [][NextReadOutput]_vars

\* C10: readOutput for a slot returns the smallest index whose activation in
\* that slot equals the maximum over the output neurons.
C10_ReadOutputIsFirstArgMax ==
  outResult # -1 =>
    LET v == outActs[outMb]
    IN /\ outResult \in 0 .. (Len(v) - 1)
       /\ \A i \in 1 .. Len(v) : v[i] <= v[outResult + 1]
       /\ \A i \in 1 .. outResult : v[i] < v[outResult + 1]

\* The maximum occurs twice, neither time at index 0, in a slot other than 0.
C10_TieAfterFirstNeuron ==
  /\ outResult = 1
  /\ outMb = 1
  /\ Len(outActs[outMb]) = 3
  /\ outActs[outMb][1] < outActs[outMb][2]
  /\ outActs[outMb][2] = outActs[outMb][3]

\* ------------------------------------------------------- the layers' shapes

\* The largest extent of a declared layer.
MaxDim == 3

\* The extents of a layer's neurons container, in storage order, as its
\* constructor allocates it.  Network.hpp's ConvLayer stores [fm][x][y],
\* main4.cpp's [x][y][fm].
neuronExtents(im, layer) ==
  CASE layer.type = "Input" -> <<layer.inputX, layer.inputY, 1>>
    [] layer.type = "Conv" ->
         IF im = "hpp"
         THEN <<layer.numFMs, layer.inputX - layer.kernelX + 1,
                layer.inputY - layer.kernelY + 1>>
         ELSE <<layer.inputX - layer.kernelX + 1,
                layer.inputY - layer.kernelY + 1, layer.numFMs>>
    [] layer.type = "Pool" ->
         <<layer.inputX \div layer.poolX, layer.inputY \div layer.poolY,
           layer.inputZ>>
    [] OTHER -> <<layer.layerSize>>

\* A variant of getDim that reads the container's extents in storage order.
getDimStorage(im, layer, i) == neuronExtents(im, layer)[i + 1]

\* Layer::getDim(i)
getDim(im, layer, i) ==
  CASE layer.type = "Conv" /\ im = "hpp" ->
         IF i = 2 THEN neuronExtents(im, layer)[1]
         ELSE neuronExtents(im, layer)[i + 2]
    [] layer.type \in {"FC", "SoftMax"} -> neuronExtents(im, layer)[1]
    [] OTHER -> neuronExtents(im, layer)[i + 1]

\* neurons.num_elements() / neurons.size()
numElements(im, layer) == Product(neuronExtents(im, layer))

\* The layers that can be declared with extents up to MaxDim: kernels no
\* larger than their input, pools that divide it, kernel depth equal to
\* input depth.
ShapeLayers(im) ==
  { InputLayer(x, y) : x \in 1 .. MaxDim, y \in 1 .. MaxDim }
  \cup { FullyConnectedLayer(n, 2) : n \in 1 .. MaxDim }
  \cup (IF im = "hpp" THEN { SoftMaxLayer(n, 2) : n \in 1 .. MaxDim } ELSE {})
  \cup { ConvLayer(k[1], k[2], z, in[1], in[2], z, fms) :
           k \in (1 .. 2) \X (1 .. 2), in \in (2 .. MaxDim) \X (2 .. MaxDim),
           z \in 1 .. 2, fms \in 1 .. 2 }
  \cup { MaxPoolLayer(q[1], q[2], q[1] * n[1], q[2] * n[2], z) :
           q \in (1 .. 2) \X (1 .. 2), n \in (1 .. MaxDim) \X (1 .. MaxDim),
           z \in 1 .. 2 }

\* A layer is constructed and asked for its shape.
ConstructLayer ==
  /\ frame.fn = "Layer"
  /\ ~frame.done
  /\ frame' = [fn |-> "Layer", layer |-> frame.layer, done |-> TRUE,
               numDims |-> getNumDims(impl, frame.layer),
               dims |-> [i \in 1 .. getNumDims(impl, frame.layer) |->
                           getDim(impl, frame.layer, i - 1)],
               size |-> numElements(impl, frame.layer)]
  /\ UNCHANGED <<poolLayer, poolMb, poolIn, poolOut, poolDone, outActs,
                 outMb, outResult, callType, callOp, callResult>>
  /\ UNCHANGED netVars

\* The single-call variables other than frame are idle.
NoOtherCall ==
  /\ poolLayer = NoLayer
  /\ poolMb = 0
  /\ poolIn = <<>>
  /\ poolOut = <<>>
  /\ poolDone = FALSE
  /\ outActs = <<>>
  /\ outMb = 0
  /\ outResult = -1
  /\ callType = "none"
  /\ callOp = "none"
  /\ callResult = "pending"

InitShape ==
  /\ impl \in {"hpp", "main4"}
  /\ ndebug = FALSE
  /\ NoNetwork
  /\ NoOtherCall
  /\ \E layer \in ShapeLayers(impl) :
       frame = [fn |-> "Layer", layer |-> layer, done |-> FALSE,
                numDims |-> 0, dims |-> <<>>, size |-> 0]

NextShape == ConstructLayer

SpecShape == InitShape /\ [][NextShape]_vars

\* C11: every layer has the analytically predicted shape: a convolutional
\* layer has dims (inputX-kernelX+1, inputY-kernelY+1, numFMs), a max-pooling
\* layer (inputX/poolX, inputY/poolY, inputZ), each with size() their
\* product; the input layer has imageX*imageY neurons; fully-connected and
\* softmax layers have layerSize neurons and one dimension.
C11_LayerShapes ==
  (frame.fn = "Layer" /\ frame.done) =>
    LET l == frame.layer
    IN CASE l.type = "Conv" ->
              /\ frame.dims = <<l.inputX - l.kernelX + 1,
                                l.inputY - l.kernelY + 1, l.numFMs>>
              /\ frame.size = (l.inputX - l.kernelX + 1)
                                * (l.inputY - l.kernelY + 1) * l.numFMs
         [] l.type = "Pool" ->
              /\ frame.dims = <<l.inputX \div l.poolX, l.inputY \div l.poolY,
                                l.inputZ>>
              /\ frame.size = (l.inputX \div l.poolX)
                                * (l.inputY \div l.poolY) * l.inputZ
         [] l.type = "Input" -> frame.size = l.inputX * l.inputY
         [] OTHER -> frame.size = l.layerSize /\ frame.numDims = 1

\* Network.hpp's convolutional layer with two feature maps over a 3 x 2
\* output plane has reported its shape.
C11_ConvShapeReported ==
  /\ impl = "hpp"
  /\ frame.fn = "Layer"
  /\ frame.done
  /\ frame.layer = ConvLayer(1, 2, 1, 3, 3, 1, 2)
  /\ frame.dims = <<3, 2, 2>>

\* ---------------------------------------------------- the coordinate helpers

\* Operands are extents and indices of allocated neuron arrays, whose
\* products are far below the range of unsigned.

\* A variant of getY without the reduction modulo dimY.
getYUnreduced(index, dimX, dimY) == index \div dimX

getX(index, dimX) == index % dimX

getY(index, dimX, dimY) == (index \div dimX) % dimY

getZ(index, dimX, dimY) == index \div (dimX * dimY)

getIndex(x, y, z, dimX, dimY) == ((dimX * dimY) * z) + (dimX * y) + x

\* A flat index is taken apart with getX, getY, getZ and put together again.
SplitIndex ==
  /\ frame.fn = "getXYZ"
  /\ ~frame.done
  /\ LET x == getX(frame.index, frame.W)
         y == getY(frame.index, frame.W, frame.H)
         z == getZ(frame.index, frame.W, frame.H)
     IN frame' = [frame EXCEPT !.done = TRUE, !.x = x, !.y = y, !.z = z,
                               !.back = getIndex(x, y, z, frame.W, frame.H)]
  /\ UNCHANGED <<poolLayer, poolMb, poolIn, poolOut, poolDone, outActs,
                 outMb, outResult, callType, callOp, callResult>>
  /\ UNCHANGED netVars

\* A coordinate is flattened with getIndex and taken apart again.
JoinIndex ==
  /\ frame.fn = "getIndex"
  /\ ~frame.done
  /\ LET i == getIndex(frame.x, frame.y, frame.z, frame.W, frame.H)
     IN frame' = [frame EXCEPT !.done = TRUE, !.index = i,
                               !.back = <<getX(i, frame.W),
                                          getY(i, frame.W, frame.H),
                                          getZ(i, frame.W, frame.H)>>]
  /\ UNCHANGED <<poolLayer, poolMb, poolIn, poolOut, poolDone, outActs,
                 outMb, outResult, callType, callOp, callResult>>
  /\ UNCHANGED netVars

\* A volume of W x H x D neurons and an index or a coordinate inside it.
InitIndex ==
  /\ impl = "hpp"
  /\ ndebug = FALSE
  /\ NoNetwork
  /\ NoOtherCall
  /\ \E W \in 1 .. MaxDim, H \in 1 .. MaxDim, D \in 1 .. MaxDim :
       \/ \E i \in 0 .. ((W * H * D) - 1) :
            frame = [fn |-> "getXYZ", W |-> W, H |-> H, D |-> D, done |-> FALSE,
                     index |-> i, x |-> 0, y |-> 0, z |-> 0, back |-> 0]
       \/ \E x \in 0 .. (W - 1), y \in 0 .. (H - 1), z \in 0 .. (D - 1) :
            frame = [fn |-> "getIndex", W |-> W, H |-> H, D |-> D,
                     done |-> FALSE, index |-> 0, x |-> x, y |-> y, z |-> z,
                     back |-> <<>>]

NextIndex == SplitIndex \/ JoinIndex

SpecIndex == InitIndex /\ [][NextIndex]_vars

\* C12: for W, H, D >= 1 and a flat index i < W*H*D, getX(i) = i mod W,
\* getY(i) = (i div W) mod H, getZ(i) = i div (W*H) < D and getIndex of the
\* three is i; for x < W, y < H, z < D, getIndex(x, y, z) < W*H*D and getX,
\* getY, getZ of it are x, y, z.
C12_IndexHelpersInverse ==
  /\ (frame.fn = "getXYZ" /\ frame.done) =>
       /\ frame.x = frame.index % frame.W
       /\ frame.y = (frame.index \div frame.W) % frame.H
       /\ frame.z = frame.index \div (frame.W * frame.H)
       /\ frame.z < frame.D
       /\ frame.back = frame.index
  /\ (frame.fn = "getIndex" /\ frame.done) =>
       /\ frame.index < frame.W * frame.H * frame.D
       /\ frame.back = <<frame.x, frame.y, frame.z>>

\* An index in the last plane and last row of a 2 x 3 x 2 volume has been
\* taken apart.
C12_LastRowSplit ==
  /\ frame.fn = "getXYZ"
  /\ frame.done
  /\ frame.W = 2 /\ frame.H = 3 /\ frame.D = 2
  /\ frame.index = 11
  /\ frame.x = 1 /\ frame.y = 2 /\ frame.z = 1

\* ------------------------------------------------------ the per-epoch shuffle

\* The seeds an epoch can draw.
MaxSeed == 3

\* The order std::shuffle gives n elements when run with a
\* std::default_random_engine constructed from seed: a function of the
\* seed and of n alone (here a rotation, mirrored for odd seeds).
permutation(seed, n) ==
  [i \in 1 .. n |->
     IF seed % 2 = 0 THEN ((i - 1 + (seed \div 2)) % n) + 1
     ELSE n - ((i - 1 + (seed \div 2)) % n)]

\* std::shuffle(seq.begin(), seq.end(), std::default_random_engine(seed))
shuffle(seq, seed) ==
  [i \in 1 .. Len(seq) |-> seq[permutation(seed, Len(seq))[i]]]

\* A variant in which the labels' engine is seeded afresh.
labelSeedFresh(seed) == seed + 1

\* The seed of the engine that shuffles the labels: the epoch's seed.
labelSeed(seed) == seed

\* The seed of the engine that shuffles the images: the epoch's seed.
imageSeed(seed) == seed

\* SGD, top of an epoch: one seed, two shuffles.
ShuffleEpoch ==
  /\ frame.fn = "SGD"
  /\ frame.epoch < NumEpochs + 1
  /\ \E seed \in 0 .. MaxSeed :
       frame' = [frame EXCEPT
                   !.epoch = @ + 1,
                   !.trainingLabels = shuffle(@, labelSeed(seed)),
                   !.trainingImages = shuffle(@, imageSeed(seed))]
  /\ UNCHANGED <<poolLayer, poolMb, poolIn, poolOut, poolDone, outActs,
                 outMb, outResult, callType, callOp, callResult>>
  /\ UNCHANGED netVars

\* A training set: image k (named by its number) comes with label
\* labelOf[k]; the two vectors start in the same order.
InitShuffle ==
  /\ impl \in {"hpp", "main4"}
  /\ ndebug = FALSE
  /\ NoNetwork
  /\ NoOtherCall
  /\ \E n \in 1 .. MaxImages : \E labelOf \in [1 .. n -> 0 .. 1] :
       frame = [fn |-> "SGD", epoch |-> 0, labelOf |-> labelOf,
                trainingImages |-> [k \in 1 .. n |-> k],
                trainingLabels |-> [k \in 1 .. n |-> labelOf[k]]]

NextShuffle == ShuffleEpoch

SpecShuffle == InitShuffle /\ [][NextShuffle]_vars

\* C13: after the shuffle at the start of every epoch, the label at every
\* position is the label that came with the image now at that position.
C13_ShufflePreservesPairing ==
  frame.fn = "SGD" =>
    /\ Len(frame.trainingLabels) = Len(frame.trainingImages)
    /\ \A i \in 1 .. Len(frame.trainingImages) :
         frame.trainingLabels[i] = frame.labelOf[frame.trainingImages[i]]

\* Two epochs have shuffled a set with both labels; the first image has
\* moved to the last position.
C13_ShuffledTwice ==
  /\ frame.fn = "SGD"
  /\ frame.epoch = 2
  /\ Len(frame.trainingImages) = 3
  /\ frame.trainingImages[3] = 1
  /\ frame.labelOf[1] # frame.labelOf[2]

\* ---------------------------------------------------- weight initialisation

\* The clock readings std::time(nullptr) can return to a run.
MaxTime == 1

\* The chain the constructor works on: Network.hpp appends the softmax layer.
constructedLayers(im, cfg) ==
  IF im = "hpp"
  THEN cfg.hidden \o <<SoftMaxLayer(cfg.softMaxSize, cfg.lastLayerSize)>>
  ELSE DeclaredLayers(im, cfg)

\* The number of values initialiseDefaultWeights draws for a layer: one per
\* weight and one per bias.
numDraws(layer, pred) ==
  CASE layer.type \in {"FC", "SoftMax"} -> layer.layerSize * (size(pred) + 1)
    [] layer.type = "Conv" ->
         layer.numFMs
           * ((layer.kernelX * layer.kernelY * layer.kernelZ) + 1)
    [] OTHER -> 0

\* The engine a layer draws from and what it was seeded with.
\* Network.hpp: the network's generator, constructed from params.seed and
\* passed to every layer.  main4.cpp: a function-local static engine,
\* constructed from std::time(nullptr), one in FullyConnectedNeuron and one
\* in ConvLayer.
engineOf(im, layer, seed, time) ==
  IF im = "hpp" THEN <<"Network::generator", "params.seed", seed>>
  ELSE IF layer.type = "Conv" THEN <<"ConvLayer generator", "time", time>>
  ELSE <<"FullyConnectedNeuron generator", "time", time>>

\* layers[i]->initialiseDefaultWeights of one run: the layer's parameters
\* are the next numDraws outputs of its engine.
InitialiseLayer(r) ==
  /\ frame.fn = "Network"
  /\ frame.run[r].next <= Len(frame.layers)
  /\ LET run == frame.run[r]
         l == run.next
         layer == frame.layers[l]
         engine == engineOf(impl, layer, frame.seed, run.time)
         used == IF engine \in DOMAIN run.drawn THEN run.drawn[engine] ELSE 0
         n == numDraws(layer, LayerAt(frame.layers, l - 1))
     IN frame' = [frame EXCEPT
                    !["run"][r] =
                      [time |-> run.time,
                       next |-> l + 1,
                       drawn |-> [e \in DOMAIN run.drawn \cup {engine} |->
                                    IF e = engine THEN used + n
                                    ELSE run.drawn[e]],
                       parameters |->
                         Append(run.parameters,
                                IF n = 0 THEN <<>>
                                ELSE <<engine, used + 1, used + n>>)]]
  /\ UNCHANGED <<poolLayer, poolMb, poolIn, poolOut, poolDone, outActs,
                 outMb, outResult, callType, callOp, callResult>>
  /\ UNCHANGED netVars

\* Two runs construct the same chain with the same configured seed; each
\* run reads its own clock.
InitWeights ==
  /\ impl \in {"hpp", "main4"}
  /\ ndebug = FALSE
  /\ NoNetwork
  /\ NoOtherCall
  /\ \E cfg \in MatchingNets, seed \in 0 .. MaxSeed,
        t \in [1 .. 2 -> 0 .. MaxTime] :
       frame = [fn |-> "Network", seed |-> seed,
                layers |-> constructedLayers(impl, cfg),
                run |-> [r \in 1 .. 2 |->
                           [time |-> t[r], next |-> 1, drawn |-> <<>>,
                            parameters |-> <<>>]]]

NextWeights == \E r \in 1 .. 2 : InitialiseLayer(r)

SpecWeights == InitWeights /\ [][NextWeights]_vars

\* C14: two constructions of the same chain with the same seed yield the
\* same weights and biases in every layer.
C14_SameSeedSameWeights ==
  (/\ frame.fn = "Network"
   /\ \A r \in 1 .. 2 : frame.run[r].next > Len(frame.layers))
  => frame.run[1].parameters = frame.run[2].parameters

\* Two runs of main4.cpp, started at different times, have initialised a
\* chain and differ in the first layer's parameters.
C14_ClockSeedsMain4 ==
  /\ frame.fn = "Network"
  /\ impl = "main4"
  /\ \A r \in 1 .. 2 : frame.run[r].next > Len(frame.layers)
  /\ frame.run[1].time # frame.run[2].time
  /\ frame.run[1].parameters[1] # frame.run[2].parameters[1]

\* ------------------------------------------- the values of a forward pass

\* Activations are kept as terms: what was computed, from which stored
\* values.  A location no pass has written yet holds what an earlier use of
\* the network left there.
priorContents(history, l, mb) ==
  [left |-> "by an earlier pass", history |-> history, layer |-> l,
   slot |-> mb]

\* A variant of the pooling loop whose running maximum starts from the
\* neuron's stored activation.
layerFeedForwardAccumulating(layer, l, w, acts, mb) ==
  CASE layer.type = "Pool" ->
         [fn |-> "max", floor |-> acts[l][mb], input |-> acts[l - 1][mb]]
    [] layer.type = "SoftMax" ->
         [fn |-> "exp / sum exp", weights |-> w[l],
          input |-> acts[l - 1][mb]]
    [] OTHER ->
         [fn |-> "sigmoid", weights |-> w[l], input |-> acts[l - 1][mb]]

\* layers[l]->feedForward(mb): every neuron's activations[mb] is assigned a
\* value computed from the predecessor's activations[mb] and, except in a
\* pooling layer, the layer's weights and bias w[l].
layerFeedForward(layer, l, w, acts, mb) ==
  CASE layer.type = "Pool" ->
         [fn |-> "max", floor |-> "FLT_MIN", input |-> acts[l - 1][mb]]
    [] layer.type = "SoftMax" ->
         [fn |-> "exp / sum exp", weights |-> w[l],
          input |-> acts[l - 1][mb]]
    [] OTHER ->
         [fn |-> "sigmoid", weights |-> w[l], input |-> acts[l - 1][mb]]

RECURSIVE networkFeedForward(_, _, _, _, _)
\* Network::feedForward(mb): the layers from l on, in chain order.
networkFeedForward(ls, w, acts, mb, l) ==
  IF l > Len(ls) THEN acts
  ELSE networkFeedForward(
         ls, w,
         [acts EXCEPT ![l][mb] = layerFeedForward(ls[l], l, w, acts, mb)],
         mb, l + 1)

\* The weights and biases as initialised, layer by layer.
initialParameters(ls) == [l \in 1 .. Len(ls) |-> [initial |-> l]]

\* The chains whose forward pass is supported by every layer.
ForwardChains(im) ==
  { constructedLayers(im, cfg) : cfg \in
      { c \in MatchingNets :
          \A l \in 1 .. Len(constructedLayers(im, c)) :
            feedForwardFault(im, constructedLayers(im, c)[l],
                             LayerAt(constructedLayers(im, c), l - 1))
              = "none" } }

\* inputLayer.setImage(image, mb) of run r.
SetImage(r, mb) ==
  /\ frame.fn = "feedForward"
  /\ frame.at[r][mb] = "start"
  /\ frame' = [frame EXCEPT
                 !["at"][r][mb] = "image set",
                 !["acts"][r][0][mb] = [image |-> frame.image[r][mb]]]
  /\ UNCHANGED <<poolLayer, poolMb, poolIn, poolOut, poolDone, outActs,
                 outMb, outResult, callType, callOp, callResult>>
  /\ UNCHANGED netVars

\* feedForward(mb) of run r.
FeedForward(r, mb) ==
  /\ frame.fn = "feedForward"
  /\ frame.at[r][mb] = "image set"
  /\ frame' = [frame EXCEPT
                 !["at"][r][mb] = "fed forward",
                 !["acts"][r] =
                   networkFeedForward(frame.layers, initialParameters(frame.layers),
                                      frame.acts[r], mb, 1)]
  /\ UNCHANGED <<poolLayer, poolMb, poolIn, poolOut, poolDone, outActs,
                 outMb, outResult, callType, callOp, callResult>>
  /\ UNCHANGED netVars

\* Two runs of the same network with the same weights: run 2 may have been
\* used differently before and may be given other images.
InitFeedForward ==
  /\ impl \in {"hpp", "main4"}
  /\ ndebug = FALSE
  /\ NoNetwork
  /\ NoOtherCall
  /\ \E ls \in ForwardChains(impl), h \in {"run 1", "run 2"},
        img \in [Slots -> {"a", "b"}] :
       frame = [fn |-> "feedForward", layers |-> ls,
                image |-> [r \in 1 .. 2 |->
                             IF r = 1 THEN [mb \in Slots |-> "a"] ELSE img],
                at |-> [r \in 1 .. 2 |-> [mb \in Slots |-> "start"]],
                acts |-> [r \in 1 .. 2 |->
                            [l \in 0 .. Len(ls) |->
                               [mb \in Slots |->
                                  priorContents(IF r = 1 THEN "run 1" ELSE h,
                                                l, mb)]]]]

NextFeedForward ==
  \E r \in 1 .. 2, mb \in Slots : SetImage(r, mb) \/ FeedForward(r, mb)

SpecFeedForward == InitFeedForward /\ [][NextFeedForward]_vars

\* C15: once setImage and feedForward have run on slot m, the activations of
\* every layer in slot m are the same in two runs that were given the same
\* image in slot m, whatever the slot held before and whatever the other
\* slots hold.
C15_SlotDependsOnImageOnly ==
  frame.fn = "feedForward" =>
    \A mb \in Slots :
      (/\ frame.at[1][mb] = "fed forward"
       /\ frame.at[2][mb] = "fed forward"
       /\ frame.image[1][mb] = frame.image[2][mb])
      => \A l \in 0 .. Len(frame.layers) :
           frame.acts[1][l][mb] = frame.acts[2][l][mb]

\* Both runs have fed the same image forward through a pooling layer in one
\* slot, from different earlier contents and with different images in
\* another slot.
C15_SameImageDifferentPast ==
  /\ frame.fn = "feedForward"
  /\ \E l \in 1 .. Len(frame.layers) : frame.layers[l].type = "Pool"
  /\ \E mb \in Slots, other \in Slots :
       /\ frame.at[1][mb] = "fed forward"
       /\ frame.at[2][mb] = "fed forward"
       /\ frame.image[1][mb] = frame.image[2][mb]
       /\ frame.at[2][other] = "fed forward"
       /\ frame.image[1][other] # frame.image[2][other]
       /\ frame.acts[1][1][other] # frame.acts[2][1][other]
       /\ frame.acts[2][Len(frame.layers)][mb].input
            # priorContents("run 2", Len(frame.layers) - 1, mb)

\* --------------------------------------------- what training is computed from

\* Every stored value is kept as the set of inputs it was computed from:
\*   <<"initial", l>>                 layer l's weights as initialised
\*   <<"image", set, order, i>>       image i of a data set, in a shuffle order
\*   <<"label", set, order, i>>       its label
\*   <<"prior", run, array, l, mb>>   what the array held at construction
\* A network is [w, acts, errs, drawn, order]: the parameters per layer,
\* the activations and errors per layer and slot, the number of values
\* drawn from Network::generator and the seeds the training set was
\* shuffled with.

\* inputLayer.setImage(image, mb); feedForward(mb).
forwardSlot(ls, net, image, mb) ==
  LET a[l \in 0 .. Len(ls)] ==
        IF l = 0 THEN {image}
        ELSE IF ls[l].type = "Pool" THEN a[l - 1]
        ELSE net.w[l] \cup a[l - 1]
  IN [net EXCEPT
        !.acts = [l \in 0 .. Len(ls) |-> [net.acts[l] EXCEPT ![mb] = a[l]]]]

\* Network::backPropogate(image, label, mb): the forward pass, the output
\* error from the output activations and the label, then each layer's
\* error from its successor's weights and errors and its own weighted
\* input.
backPropogateSlot(ls, net, image, label, mb) ==
  LET L == Len(ls)
      fwd == forwardSlot(ls, net, image, mb)
      e[k \in 0 .. L - 1] ==
        IF k = 0 THEN fwd.acts[L][mb] \cup {label}
        ELSE net.w[L - k + 1] \cup e[k - 1] \cup fwd.acts[L - k][mb]
  IN [fwd EXCEPT
        !.errs = [l \in 1 .. L |-> [net.errs[l] EXCEPT ![mb] = e[L - l]]]]

RECURSIVE updateMiniBatch(_, _, _, _)
\* Network::updateMiniBatch at position i: backPropogate for the slots from
\* mb on, then endBatch on every layer.
updateMiniBatch(ls, net, i, mb) ==
  IF mb < MbSize
  THEN updateMiniBatch(
         ls,
         backPropogateSlot(ls, net,
                           <<"image", "training", net.order, i + mb>>,
                           <<"label", "training", net.order, i + mb>>, mb),
         i, mb + 1)
  ELSE [net EXCEPT
          !.w = [l \in 1 .. Len(ls) |->
                   IF ls[l].type = "Pool" THEN net.w[l]
                   ELSE net.w[l]
                          \cup UNION {net.acts[l - 1][j] : j \in Slots}
                          \cup UNION {net.errs[l][j] : j \in Slots}]]

\* A variant that evaluates the set in an order drawn from the network's
\* generator.
RECURSIVE evaluateShuffled(_, _, _, _, _)
evaluateShuffled(ls, net, set, n, k) ==
  IF k >= n THEN [net EXCEPT !.drawn = net.drawn + 1]
  ELSE evaluateShuffled(
         ls, forwardSlot(ls, net, <<"image", set, <<>>, k>>, k % MbSize),
         set, n, k + 1)

RECURSIVE evaluate(_, _, _, _, _)
\* evaluateAccuracy / evaluateTotalCost over a set of n images, from image
\* k on: testImage / imageCost on image k in slot k % mbSize.
evaluate(ls, net, set, n, k) ==
  IF k >= n THEN net
  ELSE evaluate(
         ls, forwardSlot(ls, net, <<"image", set, <<>>, k>>, k % MbSize),
         set, n, k + 1)

\* The data sets SGD evaluates at a monitoring point, in the order it tests
\* the toggles.
monitoredSets(p) ==
  (IF p.monitorEvaluationAccuracy THEN <<"validation">> ELSE <<>>)
  \o (IF p.monitorEvaluationCost THEN <<"validation">> ELSE <<>>)
  \o (IF p.monitorTrainingAccuracy THEN <<"test">> ELSE <<>>)
  \o (IF p.monitorTrainingCost THEN <<"test">> ELSE <<>>)

\* The mini-batch loop and the epoch loop move on.
advance(run, n) ==
  IF run.i + MbSize < n
  THEN [run EXCEPT !.at = "batch", !.i = run.i + MbSize]
  ELSE [run EXCEPT !.at = IF run.epoch + 1 < NumEpochs THEN "epoch"
                          ELSE "done",
                   !.i = 0, !.epoch = run.epoch + 1]

\* An epoch begins: a seed is drawn from the generator and the training
\* images and labels are shuffled with it.
SGDShuffle(r) ==
  /\ frame.fn = "SGD"
  /\ frame.run[r].at = "epoch"
  /\ LET net == frame.run[r].net
     IN frame' = [frame EXCEPT
                    !["run"][r].at = "batch",
                    !["run"][r].net =
                      [net EXCEPT !.drawn = net.drawn + 1,
                                  !.order = Append(net.order,
                                                   net.drawn + 1)]]
  /\ UNCHANGED <<poolLayer, poolMb, poolIn, poolOut, poolDone, outActs,
                 outMb, outResult, callType, callOp, callResult>>
  /\ UNCHANGED netVars

\* updateMiniBatch, then the test i % monitorInterval == 0.
SGDUpdateMiniBatch(r) ==
  /\ frame.fn = "SGD"
  /\ frame.run[r].at = "batch"
  /\ LET run == frame.run[r]
         after == [run EXCEPT
                     !.net = updateMiniBatch(frame.layers, run.net, run.i, 0),
                     !.batches = run.batches + 1]
         todo == IF run.i % frame.monitorInterval = 0
                 THEN monitoredSets(run.params) ELSE <<>>
     IN frame' = [frame EXCEPT
                    !["run"][r] =
                      IF todo = <<>> THEN advance(after, frame.numTraining)
                      ELSE [after EXCEPT !.at = "monitor", !.todo = todo]]
  /\ UNCHANGED <<poolLayer, poolMb, poolIn, poolOut, poolDone, outActs,
                 outMb, outResult, callType, callOp, callResult>>
  /\ UNCHANGED netVars

\* One evaluation of the monitoring point, and after the last one the
\* loop moves on.
SGDEvaluate(r) ==
  /\ frame.fn = "SGD"
  /\ frame.run[r].at = "monitor"
  /\ LET run == frame.run[r]
         after == [run EXCEPT
                     !.net = evaluate(frame.layers, run.net, Head(run.todo),
                                      frame.numEvaluated, 0),
                     !.todo = Tail(run.todo)]
     IN frame' = [frame EXCEPT
                    !["run"][r] =
                      IF after.todo = <<>>
                      THEN advance(after, frame.numTraining)
                      ELSE after]
  /\ UNCHANGED <<poolLayer, poolMb, poolIn, poolOut, poolDone, outActs,
                 outMb, outResult, callType, callOp, callResult>>
  /\ UNCHANGED netVars

\* Two runs of SGD on the same network, data and monitorInterval: run 1
\* monitors nothing, run 2 has any setting of the toggles.  The data sets
\* hold a multiple of mbSize images.
InitSGD ==
  /\ impl = "hpp"
  /\ ndebug = FALSE
  /\ NoNetwork
  /\ NoOtherCall
  /\ \E ls \in { c \in ForwardChains("hpp") :
                    Faults("hpp", c, backPropogate(Len(c)), 0, 1) = <<>> },
        t \in [{"monitorEvaluationAccuracy", "monitorEvaluationCost",
                "monitorTrainingAccuracy", "monitorTrainingCost"}
                 -> BOOLEAN],
        interval \in {1, 2 * MbSize},
        nT \in {MbSize, 2 * MbSize}, nE \in {MbSize, 2 * MbSize} :
       frame =
         [fn |-> "SGD", layers |-> ls, monitorInterval |-> interval,
          numTraining |-> nT, numEvaluated |-> nE,
          run |-> [r \in 1 .. 2 |->
            [params |-> IF r = 1 THEN [f \in DOMAIN t |-> FALSE] ELSE t,
             at |-> "epoch", epoch |-> 0, i |-> 0, batches |-> 0,
             todo |-> <<>>,
             net |-> [w |-> [l \in 1 .. Len(ls) |-> {<<"initial", l>>}],
                      acts |-> [l \in 0 .. Len(ls) |-> [mb \in Slots |->
                                  {<<"prior", r, "activations", l, mb>>}]],
                      errs |-> [l \in 1 .. Len(ls) |-> [mb \in Slots |->
                                  {<<"prior", r, "errors", l, mb>>}]],
                      drawn |-> 0, order |-> <<>>]]]]

NextSGD ==
  \E r \in 1 .. 2 : SGDShuffle(r) \/ SGDUpdateMiniBatch(r) \/ SGDEvaluate(r)

SpecSGD == InitSGD /\ [][NextSGD]_vars

testImageOutcomes(correct, n, k) ==
  IF k < n THEN {IF correct[k] THEN "true" ELSE "false"}
  ELSE {"true", "false", "fatal"}

\* One iteration of the reduction body in subrange part: total += testImage
\* of the next slot of the subrange.
AccuracyBody(part) ==
  /\ frame.fn = "evaluateAccuracy"
  /\ frame.at = "reduce"
  /\ frame.next[part] < frame.last[part]
  /\ \E r \in testImageOutcomes(frame.correct, frame.n,
                                  frame.i + frame.next[part]) :
       frame' = IF r = "fatal" THEN [frame EXCEPT !.at = "fatal"]
                ELSE [frame EXCEPT
                        !.next[part] = frame.next[part] + 1,
                        !.total[part] = frame.total[part]
                                          + (IF r = "true" THEN 1 ELSE 0),
                        !.tested = Append(frame.tested,
                                          frame.i + frame.next[part])]
  /\ UNCHANGED <<poolLayer, poolMb, poolIn, poolOut, poolDone, outActs,
                 outMb, outResult, callType, callOp, callResult>>
  /\ UNCHANGED netVars

\* The subranges are finished: their totals are added to result, and the
\* loop goes on to the next range, split at any point, or returns.
AccuracyJoin ==
  /\ frame.fn = "evaluateAccuracy"
  /\ frame.at = "reduce"
  /\ \A part \in 1 .. 2 : frame.next[part] = frame.last[part]
  /\ \E p \in 0 .. evalStride(impl) :
       frame' = [frame EXCEPT
                   !.result = frame.result + frame.total[1] + frame.total[2],
                   !.i = frame.i + evalStride(impl),
                   !.at = IF frame.i + evalStride(impl) < frame.n
                          THEN "reduce" ELSE "returned",
                   !.next = <<0, p>>,
                   !.last = <<p, evalStride(impl)>>,
                   !.total = <<0, 0>>]
  /\ UNCHANGED <<poolLayer, poolMb, poolIn, poolOut, poolDone, outActs,
                 outMb, outResult, callType, callOp, callResult>>
  /\ UNCHANGED netVars

\* evaluateAccuracy is called on a set of n samples.
InitAccuracy ==
  /\ impl \in {"hpp", "main4"}
  /\ ndebug = FALSE
  /\ NoNetwork
  /\ NoOtherCall
  /\ \E n \in 1 .. MaxImages, p \in 0 .. evalStride(impl) :
       \E correct \in [0 .. n - 1 -> BOOLEAN] :
         frame = [fn |-> "evaluateAccuracy", n |-> n, correct |-> correct,
                  i |-> 0, at |-> "reduce", result |-> 0, tested |-> <<>>,
                  next |-> <<0, p>>, last |-> <<p, evalStride(impl)>>,
                  total |-> <<0, 0>>]

NextAccuracy == AccuracyJoin \/ \E part \in 1 .. 2 : AccuracyBody(part)

SpecAccuracy == InitAccuracy /\ [][NextAccuracy]_vars

\* C17: evaluateAccuracy returns, and what it returns is the number of
\* samples of the set whose readOutput equals their label, for every split
\* of the slot range and every interleaving.
C17_ReturnsCorrectCount ==
  frame.fn = "evaluateAccuracy" =>
    /\ frame.at # "fatal"
    /\ frame.at = "returned" =>
         frame.result
           = Cardinality({k \in 0 .. frame.n - 1 : frame.correct[k]})

\* Network.hpp's evaluateAccuracy has returned more than the number of
\* samples in the set.
C17_CountsPastTheEnd ==
  /\ frame.fn = "evaluateAccuracy"
  /\ impl = "hpp"
  /\ frame.at = "returned"
  /\ frame.result > frame.n

\* ------------------------------------------------ MaxPoolLayer::getBwdError

\* The request MaxPoolLayer::getBwdError(x, y, z, mb) passes on to its
\* successor, whose getNumDims() is numDims.  For a volumetric successor
\* main4.cpp passes x, y and z on as they came.
poolGetBwdError(im, layer, numDims, x, y, z) ==
  LET nX == x \div layer.poolX
      nY == y \div layer.poolY
      nZ == z
      dimX == neuronExtents(im, layer)[1]
      dimY == neuronExtents(im, layer)[2]
  IN IF numDims = 1
     THEN [index |-> getIndex(nX, nY, nZ, dimX, dimY)]
     ELSE IF im = "hpp" THEN [x |-> nX, y |-> nY, z |-> nZ]
     ELSE [x |-> x, y |-> y, z |-> z]

\* The predecessor asks the pooling layer for the error of (x, y, z).
PoolGetBwdError ==
  /\ frame.fn = "MaxPoolLayer"
  /\ frame.asked = <<>>
  /\ \E c \in Coords(<<frame.layer.inputX, frame.layer.inputY,
                         frame.layer.inputZ>>) :
       frame' = [frame EXCEPT
                   !.asked = c,
                   !.forwarded = poolGetBwdError(impl, frame.layer,
                                                 frame.numDims,
                                                 c[1], c[2], c[3])]
  /\ UNCHANGED <<poolLayer, poolMb, poolIn, poolOut, poolDone, outActs,
                 outMb, outResult, callType, callOp, callResult>>
  /\ UNCHANGED netVars

\* calcBwdError, backPropogate, endBatch and initialiseDefaultWeights of a
\* pooling layer have empty bodies.
PoolSkip(op) ==
  /\ frame.fn = "MaxPoolLayer"
  /\ op \notin frame.skipped
  /\ frame' = [frame EXCEPT !.skipped = frame.skipped \cup {op}]
  /\ UNCHANGED <<poolLayer, poolMb, poolIn, poolOut, poolDone, outActs,
                 outMb, outResult, callType, callOp, callResult>>
  /\ UNCHANGED netVars

\* A pooling layer whose successor is 1-D or volumetric.
InitPoolBwd ==
  /\ impl \in {"hpp", "main4"}
  /\ ndebug = FALSE
  /\ NoNetwork
  /\ NoOtherCall
  /\ \E q \in (1 .. 2) \X (1 .. 2), n \in (1 .. 2) \X (1 .. 2),
        z \in 1 .. 2, d \in {1, 3} :
       frame = [fn |-> "MaxPoolLayer",
                layer |-> MaxPoolLayer(q[1], q[2], q[1] * n[1], q[2] * n[2],
                                       z),
                numDims |-> d, asked |-> <<>>, forwarded |-> <<>>,
                skipped |-> {}, errors |-> <<>>]

NextPoolBwd ==
  \/ PoolGetBwdError
  \/ \E op \in {"calcBwdError", "backPropogate", "endBatch",
                 "initialiseDefaultWeights"} : PoolSkip(op)

SpecPoolBwd == InitPoolBwd /\ [][NextPoolBwd]_vars

\* C18: getBwdError(x, y, z) of a pooling layer asks its successor for the
\* downsampled coordinate (x / poolX, y / poolY, z), as a triple when the
\* successor is volumetric and as the flat index of that triple in the
\* pooling layer's grid when it is 1-D; the layer stores no error, and the
\* operations it skips leave it as it was.
C18_ForwardsDownsampledCoordinate ==
  frame.fn = "MaxPoolLayer" =>
    /\ frame.errors = <<>>
    /\ frame.asked # <<>> =>
         LET nX == frame.asked[1] \div frame.layer.poolX
             nY == frame.asked[2] \div frame.layer.poolY
             nZ == frame.asked[3]
         IN frame.forwarded
              = IF frame.numDims = 1
                THEN [index |->
                        ((frame.layer.inputX \div frame.layer.poolX)
                           * (frame.layer.inputY \div frame.layer.poolY)
                           * nZ)
                        + ((frame.layer.inputX \div frame.layer.poolX) * nY)
                        + nX]
                ELSE [x |-> nX, y |-> nY, z |-> nZ]

\* main4.cpp's pooling layer with a 2x2 window has asked a volumetric
\* successor for a coordinate outside the pooling layer's own grid.
C18_Main4ForwardsPredecessorCoordinate ==
  /\ frame.fn = "MaxPoolLayer"
  /\ impl = "main4"
  /\ frame.numDims = 3
  /\ frame.asked # <<>>
  /\ frame.forwarded.x >= frame.layer.inputX \div frame.layer.poolX

\* --------------------------------------------------- InputLayer::setImage

\* The longest image handed to setImage.
MaxPixels == 5

RECURSIVE setImageLoop(_, _, _, _, _)
\* The loop of setImage from pixel i on, over the activations acts of an
\* imageX-by-imageY grid: neurons[i % imageX][i / imageX][0]->activations[mb]
\* = image[i].  An element outside the grid is an undefined access.
setImageLoop(acts, image, imageX, mb, i) ==
  IF i >= Len(image) THEN [at |-> "returned", acts |-> acts]
  ELSE IF <<i % imageX, i \div imageX>> \notin DOMAIN acts
  THEN [at |-> "undefined", acts |-> acts]
  ELSE setImageLoop(
         [acts EXCEPT ![<<i % imageX, i \div imageX>>][mb] = image[i + 1]],
         image, imageX, mb, i + 1)

\* inputLayer.setImage(image, mb): the assert on the image's length, then
\* the loop.
SetImageCall ==
  /\ frame.fn = "setImage"
  /\ frame.at = "called"
  /\ \E r \in Outcomes(impl, ndebug,
                         IF Len(frame.image) = frame.imageX * frame.imageY
                         THEN "none" ELSE "assert") :
       frame' = IF r = "fatal" THEN [frame EXCEPT !.at = "fatal"]
                ELSE LET done == setImageLoop(frame.activations, frame.image,
                                              frame.imageX, frame.mb, 0)
                     IN [frame EXCEPT !.at = done.at,
                                      !.activations = done.acts]
  /\ UNCHANGED <<poolLayer, poolMb, poolIn, poolOut, poolDone, outActs,
                 outMb, outResult, callType, callOp, callResult>>
  /\ UNCHANGED netVars

\* An input layer whose neurons hold earlier values (0), an image of
\* pixels 1 and 2 of any length, and a slot.
InitSetImage ==
  /\ impl \in {"hpp", "main4"}
  /\ ndebug \in BOOLEAN
  /\ NoNetwork
  /\ NoOtherCall
  /\ \E X \in 1 .. 2, Y \in 1 .. 2, n \in 0 .. MaxPixels, mb \in Slots :
       \E image \in [1 .. n -> 1 .. 2] :
         LET grid == (0 .. X - 1) \X (0 .. Y - 1)
             before == [c \in grid |-> [s \in Slots |-> 0]]
         IN frame = [fn |-> "setImage", imageX |-> X, imageY |-> Y,
                     image |-> image, mb |-> mb, at |-> "called",
                     activations |-> before, weightedInputs |-> before,
                     errors |-> before]

NextSetImage == SetImageCall

SpecSetImage == InitSetImage /\ [][NextSetImage]_vars

\* C19: setImage with an image whose length is not the neuron count is
\* fatal and writes nothing; otherwise it returns, neuron
\* (i mod imageX, i div imageX) lies in the grid and holds image[i] in slot
\* m for every pixel i, and no other slot, weighted input or error is
\* changed.
C19_SetImageContract ==
  (frame.fn = "setImage" /\ frame.at # "called") =>
    LET X == frame.imageX
        Y == frame.imageY
        zero == [c \in (0 .. X - 1) \X (0 .. Y - 1) |->
                   [s \in Slots |-> 0]]
    IN /\ frame.weightedInputs = zero
       /\ frame.errors = zero
       /\ \A c \in DOMAIN zero : \A s \in Slots \ {frame.mb} :
            frame.activations[c][s] = 0
       /\ IF Len(frame.image) # X * Y
          THEN frame.at = "fatal" /\ frame.activations = zero
          ELSE /\ frame.at = "returned"
               /\ \A i \in 0 .. Len(frame.image) - 1 :
                    /\ i \div X < Y
                    /\ frame.activations[<<i % X, i \div X>>][frame.mb]
                         = frame.image[i + 1]

\* In a build with NDEBUG, setImage has returned from an image shorter than
\* the grid, and a neuron of the slot still holds its earlier value.
C19_ShortImageAccepted ==
  /\ frame.fn = "setImage"
  /\ ndebug
  /\ frame.at = "returned"
  /\ Len(frame.image) < frame.imageX * frame.imageY
  /\ Len(frame.image) > 0
  /\ \E c \in DOMAIN frame.activations : frame.activations[c][frame.mb] = 0

\* ------------------------------------- shape checks of the constructors

\* The condition the constructor of a convolutional or pooling layer
\* asserts about its declared shape.
shapeAssert(layer) ==
  IF layer.type = "Conv" THEN layer.inputZ = layer.kernelZ
  ELSE /\ layer.inputX % layer.poolX = 0
       /\ layer.inputY % layer.poolY = 0

\* The layer is declared and constructed.  Network.hpp states the
\* condition in a static_assert, so a program declaring the layer does not
\* build; main4.cpp states it in an assert of the constructor.
ConstructShaped ==
  /\ frame.fn = "shape"
  /\ frame.at = "declared"
  /\ \E r \in IF shapeAssert(frame.layer) THEN {"ok"}
               ELSE IF impl = "hpp" THEN {"does not build"}
               ELSE Outcomes(impl, ndebug, "assert") :
       frame' = [frame EXCEPT
                   !.at = IF r = "ok" THEN "constructed" ELSE r,
                   !.neurons = IF r = "ok"
                               THEN neuronExtents(impl, frame.layer)
                               ELSE <<>>]
  /\ UNCHANGED <<poolLayer, poolMb, poolIn, poolOut, poolDone, outActs,
                 outMb, outResult, callType, callOp, callResult>>
  /\ UNCHANGED netVars

\* A forward pass is run on the constructed layer.
ForwardShaped ==
  /\ frame.fn = "shape"
  /\ frame.at = "constructed"
  /\ frame' = [frame EXCEPT !.at = "feedForward"]
  /\ UNCHANGED <<poolLayer, poolMb, poolIn, poolOut, poolDone, outActs,
                 outMb, outResult, callType, callOp, callResult>>
  /\ UNCHANGED netVars

\* A convolutional or pooling layer of any declared shape.
InitShaped ==
  /\ impl \in {"hpp", "main4"}
  /\ ndebug \in BOOLEAN
  /\ NoNetwork
  /\ NoOtherCall
  /\ \E layer \in
         { ConvLayer(1, 1, kZ, in[1], in[2], inZ, 1) :
             kZ \in 1 .. 2, inZ \in 1 .. 2,
             in \in (1 .. MaxDim) \X (1 .. MaxDim) }
         \cup { MaxPoolLayer(q[1], q[2], in[1], in[2], 1) :
                  q \in (1 .. 2) \X (1 .. 2),
                  in \in (1 .. MaxDim) \X (1 .. MaxDim) } :
       frame = [fn |-> "shape", layer |-> layer, at |-> "declared",
                neurons |-> <<>>]

NextShaped == ConstructShaped \/ ForwardShaped

SpecShaped == InitShaped /\ [][NextShaped]_vars

\* C20: a pooling layer whose input width or height is not a multiple of
\* the pool size, and a convolutional layer whose kernel depth is not its
\* input depth, is never constructed and never runs a forward pass.
C20_IncompatibleShapeRejected ==
  (/\ frame.fn = "shape"
   /\ \/ (frame.layer.type = "Conv"
          /\ frame.layer.kernelZ # frame.layer.inputZ)
      \/ (frame.layer.type = "Pool"
          /\ (\/ frame.layer.inputX % frame.layer.poolX # 0
              \/ frame.layer.inputY % frame.layer.poolY # 0)))
  => frame.at \notin {"constructed", "feedForward"}

\* main4.cpp built with NDEBUG has run a forward pass on a pooling layer
\* whose input width is not a multiple of the pool width.
C20_NonDivisiblePoolInUse ==
  /\ frame.fn = "shape"
  /\ impl = "main4"
  /\ ndebug
  /\ frame.layer.type = "Pool"
  /\ frame.layer.inputX % frame.layer.poolX # 0
  /\ frame.at = "feedForward"

\* ------------------------------------------------ ConvNeuron::feedForward

\* A variant of the convolution that reads the window at the origin for
\* every neuron.
convWeightedInputAtOrigin(layer, acts, wts, bs, x, y, fm) ==
  LET kY == layer.kernelY
      kZ == layer.kernelZ
      n == layer.kernelX * kY * kZ
      s[k \in 0 .. n] ==
        IF k = 0 THEN 0
        ELSE LET a == (k - 1) \div (kY * kZ)
                 b == ((k - 1) \div kZ) % kY
                 c == (k - 1) % kZ
             IN s[k - 1] + (acts[<<a, b, c>>] * wts[<<fm, a, b, c>>])
  IN s[n] + bs[fm]

\* ConvNeuron::feedForward of neuron (x, y) of feature map fm: the (a, b, c)
\* loops add input(x + a, y + b, c) * weight, then the feature map's bias.
\* weights[<<fm, a, b, c>>] is Network.hpp's weights[fm][a][b][c] and
\* main4.cpp's weights[a][b][c][fm].
convWeightedInput(layer, acts, wts, bs, x, y, fm) ==
  LET kY == layer.kernelY
      kZ == layer.kernelZ
      n == layer.kernelX * kY * kZ
      s[k \in 0 .. n] ==
        IF k = 0 THEN 0
        ELSE LET a == (k - 1) \div (kY * kZ)
                 b == ((k - 1) \div kZ) % kY
                 c == (k - 1) % kZ
             IN s[k - 1]
                  + (acts[<<x + a, y + b, c>>] * wts[<<fm, a, b, c>>])
  IN s[n] + bs[fm]

\* ConvLayer::feedForward(mb): every neuron of every feature map.
ConvFeedForward ==
  /\ frame.fn = "ConvLayer::feedForward"
  /\ ~frame.done
  /\ frame' = [frame EXCEPT
                 !.done = TRUE,
                 !.reads =
                   { <<n[1] + o[1], n[2] + o[2], o[3]>> :
                       n \in DOMAIN frame.weightedInputs,
                       o \in Coords(<<frame.layer.kernelX,
                                      frame.layer.kernelY,
                                      frame.layer.kernelZ>>) },
                 !.weightedInputs =
                   [n \in DOMAIN frame.weightedInputs |->
                      [frame.weightedInputs[n] EXCEPT
                         ![frame.mb] =
                           convWeightedInput(frame.layer, frame.acts,
                                             frame.weights, frame.bias,
                                             n[1], n[2], n[3])]]]
  /\ UNCHANGED <<poolLayer, poolMb, poolIn, poolOut, poolDone, outActs,
                 outMb, outResult, callType, callOp, callResult>>
  /\ UNCHANGED netVars

\* A convolutional layer over a 2x2x1 input with any activations, weights
\* and biases, or a 3x3x1 kernel of ones with zero bias over a constant
\* 5x5 input.
InitConvFeedForward ==
  /\ impl \in {"hpp", "main4"}
  /\ ndebug = FALSE
  /\ NoNetwork
  /\ NoOtherCall
  /\ \E mb \in Slots :
       \/ \E k \in (1 .. 2) \X (1 .. 2), fms \in 1 .. 2 :
            LET layer == ConvLayer(k[1], k[2], 1, 2, 2, 1, fms)
            IN \E acts \in [Coords(<<2, 2, 1>>) -> 0 .. 1],
                  wts \in [(0 .. fms - 1) \X (0 .. k[1] - 1)
                                 \X (0 .. k[2] - 1) \X {0} -> 1 .. 2],
                  bs \in [0 .. fms - 1 -> 0 .. 1] :
                 frame = [fn |-> "ConvLayer::feedForward", layer |-> layer,
                          mb |-> mb, acts |-> acts, weights |-> wts,
                          bias |-> bs, done |-> FALSE, reads |-> {},
                          weightedInputs |->
                            [n \in Coords(Shape(layer)) |->
                               [m \in Slots |-> -1]]]
       \/ \E v \in 0 .. MaxValue :
            LET layer == ConvLayer(3, 3, 1, 5, 5, 1, 1)
            IN frame = [fn |-> "ConvLayer::feedForward", layer |-> layer,
                        mb |-> mb,
                        acts |-> [c \in Coords(<<5, 5, 1>>) |-> v],
                        weights |-> [w \in {0} \X (0 .. 2) \X (0 .. 2)
                                            \X {0} |-> 1],
                        bias |-> [fm \in {0} |-> 0], done |-> FALSE,
                        reads |-> {},
                        weightedInputs |->
                          [n \in Coords(Shape(layer)) |->
                             [m \in Slots |-> -1]]]

NextConvFeedForward == ConvFeedForward

SpecConvFeedForward == InitConvFeedForward /\ [][NextConvFeedForward]_vars

\* C21: after the forward pass of a convolutional layer on slot m, the
\* weighted input of neuron (x, y) of feature map fm in slot m is the sum
\* over the kernel offsets (a, b, c) of predecessor activation
\* (x + a, y + b, c) times weight (fm, a, b, c), plus the bias of fm; every
\* predecessor read lies in the input volume; a 3x3x1 kernel of ones with
\* zero bias on a constant 5x5 input v gives 9 * v everywhere.
C21_ConvolutionForward ==
  (frame.fn = "ConvLayer::feedForward" /\ frame.done) =>
    LET kX == frame.layer.kernelX
        kY == frame.layer.kernelY
        kZ == frame.layer.kernelZ
        window(n) ==
          LET s[k \in 0 .. kX * kY * kZ] ==
                IF k = 0 THEN frame.bias[n[3]]
                ELSE LET a == (k - 1) % kX
                         b == ((k - 1) \div kX) % kY
                         c == (k - 1) \div (kX * kY)
                     IN s[k - 1]
                          + (frame.weights[<<n[3], a, b, c>>]
                               * frame.acts[<<n[1] + a, n[2] + b, c>>])
          IN s[kX * kY * kZ]
    IN /\ frame.reads \subseteq DOMAIN frame.acts
       /\ \A n \in DOMAIN frame.weightedInputs :
            /\ frame.weightedInputs[n][frame.mb] = window(n)
            /\ kX = 3 => frame.weightedInputs[n][frame.mb]
                           = 9 * frame.acts[<<0, 0, 0>>]

\* The 3x3x1 kernel of ones has been applied to a constant 5x5 input of
\* value 2: nine output positions, each 18.
C21_OnesKernelOnConstantInput ==
  /\ frame.fn = "ConvLayer::feedForward"
  /\ frame.done
  /\ frame.layer.kernelX = 3
  /\ Cardinality(DOMAIN frame.weightedInputs) = 9
  /\ \A n \in DOMAIN frame.weightedInputs :
       frame.weightedInputs[n][frame.mb] = 18

\* ------------------------------------------------------- the layers' links

\* C22: a step that leaves the network constructed and in use leaves layer
\* l's predecessor link at layer l - 1 (0 is the input layer) and its
\* successor link at layer l + 1, unset for the output layer; and no step
\* other than the constructor changes a link.
C22_LinksFollowChain ==
  [][/\ phase' \in {"idle", "loop", "updateMiniBatch", "monitor", "evaluate"}
        => /\ DOMAIN inputs' = 1 .. Len(layers')
           /\ DOMAIN outputs' = 1 .. Len(layers')
           /\ \A l \in 1 .. Len(layers') :
                /\ inputs'[l] = l - 1
                /\ outputs'[l] = IF l = Len(layers') THEN -1 ELSE l + 1
     /\ phase # "new" => (inputs' = inputs /\ outputs' = outputs)]_vars

\* A network of three layers is being evaluated after a mini-batch, its
\* middle layer linked to both neighbours.
C22_ThreeLayersLinked ==
  /\ phase = "evaluate"
  /\ Len(layers) = 3
  /\ inputs[2] = 1
  /\ outputs[2] = 3
  /\ outputs[3] = -1

\* ------------------------------------------------- endBatch, layer by layer

\* A variant that recomputes the layer's error from its successor's current
\* weights.
endBatchRecomputing(ls, w, acts, errs, l, n) ==
  IF ~Trainable(ls[l]) THEN w
  ELSE [w EXCEPT ![l] = [fn |-> "endBatch", old |-> w[l], images |-> n,
                         inputs |-> acts[l - 1],
                         errors |-> <<errs[l],
                                      IF l < Len(ls) THEN w[l + 1]
                                      ELSE <<>>>>]]

\* layers[l]->endBatch(n): every weight of the layer from its old value, the
\* predecessor's activations and the layer's errors in all slots, every
\* bias from its old value and the errors; a pooling layer does nothing.
\* Values are kept as terms.
endBatchOf(ls, w, acts, errs, l, n) ==
  IF ~Trainable(ls[l]) THEN w
  ELSE [w EXCEPT ![l] = [fn |-> "endBatch", old |-> w[l], images |-> n,
                         inputs |-> acts[l - 1], errors |-> errs[l]]]

\* endBatch is applied to a layer that has not had it in this mini-batch.
EndBatchAnyOrder(l) ==
  /\ frame.fn = "endBatch"
  /\ l \in 1 .. Len(frame.layers)
  /\ \A k \in 1 .. Len(frame.applied) : frame.applied[k] # l
  /\ frame' = [frame EXCEPT
                 !.applied = Append(frame.applied, l),
                 !.w = endBatchOf(frame.layers, frame.w, frame.acts,
                                  frame.errs, l, frame.n)]
  /\ UNCHANGED <<poolLayer, poolMb, poolIn, poolOut, poolDone, outActs,
                 outMb, outResult, callType, callOp, callResult>>
  /\ UNCHANGED netVars

\* The backward passes of a mini-batch are over: the slots hold its
\* activations and errors.
InitEndBatchOrder ==
  /\ impl \in {"hpp", "main4"}
  /\ ndebug = FALSE
  /\ NoNetwork
  /\ NoOtherCall
  /\ \E ls \in ForwardChains(impl), n \in 1 .. MaxImages :
       frame = [fn |-> "endBatch", layers |-> ls, n |-> n,
                applied |-> <<>>,
                w |-> initialParameters(ls),
                acts |-> [l \in 0 .. Len(ls) |-> [mb \in Slots |->
                            <<"activations", l, mb>>]],
                errs |-> [l \in 1 .. Len(ls) |-> [mb \in Slots |->
                            <<"errors", l, mb>>]]]

NextEndBatchOrder == \E l \in 1 .. MaxDim : EndBatchAnyOrder(l)

SpecEndBatchOrder == InitEndBatchOrder /\ [][NextEndBatchOrder]_vars

\* C23: in whatever order endBatch has been applied to layers, each layer
\* it was applied to has the weights and biases the reverse chain order
\* gives it (computed from its own old parameters, its predecessor's
\* activations and its own errors), every other layer has its old
\* parameters, and no activation or error has changed.
C23_EndBatchTouchesOwnLayerOnly ==
  frame.fn = "endBatch" =>
    /\ \A l \in 1 .. Len(frame.layers) :
         frame.w[l] =
           IF (\E k \in 1 .. Len(frame.applied) : frame.applied[k] = l)
              /\ frame.layers[l].type # "Pool"
           THEN [fn |-> "endBatch", old |-> [initial |-> l],
                 images |-> frame.n,
                 inputs |-> [mb \in Slots |-> <<"activations", l - 1, mb>>],
                 errors |-> [mb \in Slots |-> <<"errors", l, mb>>]]
           ELSE [initial |-> l]
    /\ \A l \in 0 .. Len(frame.layers) : \A mb \in Slots :
         frame.acts[l][mb] = <<"activations", l, mb>>
    /\ \A l \in 1 .. Len(frame.layers) : \A mb \in Slots :
         frame.errs[l][mb] = <<"errors", l, mb>>

\* endBatch has been applied to three layers in chain order, the reverse of
\* updateMiniBatch's order.
C23_AppliedFirstToLast ==
  /\ frame.fn = "endBatch"
  /\ frame.applied = <<1, 2, 3>>
  /\ frame.w[1] # [initial |-> 1]

\* ------------------------------------------------ ConvLayer::calcBwdError

\* The value ConvLayer::calcBwdError stores for predecessor voxel (x, y, z):
\* the loops over the feature maps and kernel offsets add weight * error
\* where the guard holds.  errs[<<x, y, fm>>] is the error of neuron (x, y)
\* of feature map fm, wts[<<fm, a, b, c>>] the weight of fm at (a, b, c).
\* main4.cpp also loops over c, guards c <= z and z - c < numFeatureMaps,
\* and takes the error of neurons[x - a][y - b][z - c].
convBwdError(im, layer, errs, wts, x, y, z) ==
  LET kX == layer.kernelX
      kY == layer.kernelY
      kZ == IF im = "hpp" THEN 1 ELSE layer.kernelZ
      dim == Shape(layer)
      n == layer.numFMs * kX * kY * kZ
      s[k \in 0 .. n] ==
        IF k = 0 THEN 0
        ELSE LET fm == (k - 1) \div (kX * kY * kZ)
                 a == ((k - 1) \div (kY * kZ)) % kX
                 b == ((k - 1) \div kZ) % kY
                 c == (k - 1) % kZ
             IN IF im = "hpp"
                THEN IF a <= x /\ b <= y /\ x - a < dim[1] /\ y - b < dim[2]
                     THEN s[k - 1]
                            + (wts[<<fm, a, b, z>>] * errs[<<x - a, y - b, fm>>])
                     ELSE s[k - 1]
                ELSE IF /\ a <= x /\ b <= y /\ c <= z
                        /\ x - a < dim[1] /\ y - b < dim[2]
                        /\ z - c < dim[3]
                     THEN s[k - 1]
                            + (wts[<<fm, a, b, c>>]
                                 * errs[<<x - a, y - b, z - c>>])
                     ELSE s[k - 1]
  IN s[n]

\* ConvLayer::calcBwdError(mb): every voxel of the input volume.
ConvCalcBwdError ==
  /\ frame.fn = "ConvLayer::calcBwdError"
  /\ ~frame.done
  /\ frame' = [frame EXCEPT
                 !.done = TRUE,
                 !.bwdErrors =
                   [v \in DOMAIN frame.bwdErrors |->
                      [frame.bwdErrors[v] EXCEPT
                         ![frame.mb] =
                           convBwdError(impl, frame.layer, frame.errors,
                                        frame.weights, v[1], v[2], v[3])]]]
  /\ UNCHANGED <<poolLayer, poolMb, poolIn, poolOut, poolDone, outActs,
                 outMb, outResult, callType, callOp, callResult>>
  /\ UNCHANGED netVars

\* A convolutional layer over a 2x2x1 input with any errors and weights;
\* the buffer holds -1 everywhere.
InitConvCalcBwdError ==
  /\ impl \in {"hpp", "main4"}
  /\ ndebug = FALSE
  /\ NoNetwork
  /\ NoOtherCall
  /\ \E mb \in Slots, k \in (1 .. 2) \X (1 .. 2), fms \in 1 .. 2 :
       LET layer == ConvLayer(k[1], k[2], 1, 2, 2, 1, fms)
       IN \E errs \in [Coords(Shape(layer)) -> 0 .. 1],
             wts \in [(0 .. fms - 1) \X (0 .. k[1] - 1)
                       \X (0 .. k[2] - 1) \X {0} -> 1 .. 2] :
            frame = [fn |-> "ConvLayer::calcBwdError", layer |-> layer,
                     mb |-> mb, errors |-> errs, weights |-> wts,
                     done |-> FALSE,
                     bwdErrors |-> [v \in Coords(<<2, 2, 1>>) |->
                                      [m \in Slots |-> -1]]]

NextConvCalcBwdError == ConvCalcBwdError

SpecConvCalcBwdError == InitConvCalcBwdError /\ [][NextConvCalcBwdError]_vars

\* C24: after calcBwdError on slot m, the buffer entry of predecessor
\* voxel (x, y, z) in slot m is the sum over the feature maps fm and the
\* kernel offsets (a, b) with a <= x, b <= y, x - a and y - b inside the
\* output grid, of weight (fm, a, b, z) times the error of neuron
\* (x - a, y - b) of fm; the entries of other slots are as before.
C24_ConvolutionBackward ==
  (frame.fn = "ConvLayer::calcBwdError" /\ frame.done) =>
    LET kX == frame.layer.kernelX
        kY == frame.layer.kernelY
        fms == frame.layer.numFMs
        outX == frame.layer.inputX - kX + 1
        outY == frame.layer.inputY - kY + 1
        expected(v) ==
          LET s[k \in 0 .. fms * kX * kY] ==
                IF k = 0 THEN 0
                ELSE LET a == (k - 1) % kX
                         b == ((k - 1) \div kX) % kY
                         fm == (k - 1) \div (kX * kY)
                     IN s[k - 1]
                          + (IF /\ a <= v[1] /\ b <= v[2]
                                /\ v[1] - a < outX /\ v[2] - b < outY
                             THEN frame.weights[<<fm, a, b, v[3]>>]
                                    * frame.errors[<<v[1] - a, v[2] - b, fm>>]
                             ELSE 0)
          IN s[fms * kX * kY]
    IN \A v \in DOMAIN frame.bwdErrors :
         /\ frame.bwdErrors[v][frame.mb] = expected(v)
         /\ \A m \in Slots \ {frame.mb} : frame.bwdErrors[v][m] = -1

\* main4.cpp with two 1x1x1 feature maps: the error of the second feature
\* map is 1, that of the first 0, and the buffer entry is 0.
C24_Main4IgnoresSecondFeatureMap ==
  /\ frame.fn = "ConvLayer::calcBwdError"
  /\ frame.done
  /\ impl = "main4"
  /\ frame.layer.numFMs = 2
  /\ frame.layer.kernelX = 1
  /\ frame.layer.kernelY = 1
  /\ frame.errors[<<0, 0, 0>>] = 0
  /\ frame.errors[<<0, 0, 1>>] = 1
  /\ frame.bwdErrors[<<0, 0, 0>>][frame.mb] = 0

\* ----------------------------------------- FullyConnectedNeuron::endBatch

\* A variant that subtracts the gradient step first and decays the result.
neuronEndBatchDecayLast(wts, bs, acts, errs, lr, lambda, n) ==
  LET mul(p, q) == <<p[1] * q[1], p[2] * q[2]>>
      sub(p, q) == <<(p[1] * q[2]) - (q[1] * p[2]), p[2] * q[2]>>
      sumTo[j \in 0 .. MbSize, i \in 0 .. Len(wts)] ==
        IF j = 0 THEN 0
        ELSE sumTo[j - 1, i]
               + (IF i = 0 THEN errs[j - 1] ELSE acts[i][j - 1] * errs[j - 1])
      rate == <<lr, MbSize>>
      reg == sub(<<1, 1>>, mul(<<lr, 1>>, <<lambda, n>>))
  IN [weights |-> [i \in 1 .. Len(wts) |->
                     mul(sub(<<wts[i], 1>>,
                             mul(<<sumTo[MbSize, i], 1>>, rate)), reg)],
      bias |-> sub(<<bs, 1>>, mul(<<sumTo[MbSize, 0], 1>>, rate))]

\* FullyConnectedNeuron::endBatch(n) for a neuron with weights wts and bias
\* bs, the predecessor's activations acts[i][j] and the neuron's errors
\* errs[j]: weightDelta is the sum over the slots times learningRate /
\* mbSize, the weight is multiplied by 1 - learningRate * (lambda / n) and
\* weightDelta is subtracted; the bias loses biasDelta.  Values are exact
\* fractions <<numerator, denominator>>.
neuronEndBatch(wts, bs, acts, errs, lr, lambda, n) ==
  LET mul(p, q) == <<p[1] * q[1], p[2] * q[2]>>
      sub(p, q) == <<(p[1] * q[2]) - (q[1] * p[2]), p[2] * q[2]>>
      sumTo[j \in 0 .. MbSize, i \in 0 .. Len(wts)] ==
        IF j = 0 THEN 0
        ELSE sumTo[j - 1, i]
               + (IF i = 0 THEN errs[j - 1] ELSE acts[i][j - 1] * errs[j - 1])
      rate == <<lr, MbSize>>
      reg == sub(<<1, 1>>, mul(<<lr, 1>>, <<lambda, n>>))
  IN [weights |-> [i \in 1 .. Len(wts) |->
                     sub(mul(<<wts[i], 1>>, reg),
                         mul(<<sumTo[MbSize, i], 1>>, rate))],
      bias |-> sub(<<bs, 1>>, mul(<<sumTo[MbSize, 0], 1>>, rate))]

\* endBatch is called on the neuron.
NeuronEndBatch ==
  /\ frame.fn = "FullyConnectedNeuron::endBatch"
  /\ ~frame.done
  /\ frame' = [frame EXCEPT
                 !.done = TRUE,
                 !.after = neuronEndBatch(frame.weights, frame.bias,
                                          frame.acts, frame.errors,
                                          frame.learningRate, frame.lambda,
                                          frame.n)]
  /\ UNCHANGED <<poolLayer, poolMb, poolIn, poolOut, poolDone, outActs,
                 outMb, outResult, callType, callOp, callResult>>
  /\ UNCHANGED netVars

\* A neuron with one or two inputs, integer weights, activations and
\* errors, and the hyper-parameters of the update.
InitNeuronEndBatch ==
  /\ impl \in {"hpp", "main4"}
  /\ ndebug = FALSE
  /\ NoNetwork
  /\ NoOtherCall
  /\ \E k \in 1 .. 2, lr \in 1 .. 2, lambda \in 0 .. 1,
        n \in {1, MaxImages}, errs \in [Slots -> -1 .. 1] :
       \E wts \in [1 .. k -> 1 .. 2], acts \in [1 .. k -> [Slots -> 0 .. 1]] :
         frame = [fn |-> "FullyConnectedNeuron::endBatch", weights |-> wts,
                  bias |-> 1, acts |-> acts, errors |-> errs,
                  learningRate |-> lr, lambda |-> lambda, n |-> n,
                  done |-> FALSE, after |-> <<>>]

NextNeuronEndBatch == NeuronEndBatch

SpecNeuronEndBatch == InitNeuronEndBatch /\ [][NextNeuronEndBatch]_vars

\* C25: after endBatch(N), weight i is old weight * (1 - learningRate *
\* lambda / N) - (learningRate / mbSize) * sum over the slots of activation
\* * error, the decay not applied to the gradient term, and the bias is old
\* bias - (learningRate / mbSize) * sum of the errors; with all errors zero
\* the bias is unchanged and each weight is the old one times the decay
\* factor.
C25_DecayThenGradientStep ==
  (frame.fn = "FullyConnectedNeuron::endBatch" /\ frame.done) =>
    LET lr == frame.learningRate
        N == frame.n
        total(i) ==
          LET t[j \in 0 .. MbSize] ==
                IF j = 0 THEN 0
                ELSE t[j - 1] + (frame.acts[i][MbSize - j]
                                   * frame.errors[MbSize - j])
          IN t[MbSize]
        errorSum ==
          LET t[j \in 0 .. MbSize] ==
                IF j = 0 THEN 0 ELSE t[j - 1] + frame.errors[MbSize - j]
          IN t[MbSize]
    IN /\ \A i \in 1 .. Len(frame.weights) :
            \* new * (N * mbSize) = old * (N - lr * lambda) * mbSize
            \*                       - lr * N * total
            /\ frame.after.weights[i][2] # 0
            /\ frame.after.weights[i][1] * (N * MbSize)
                 = ((frame.weights[i] * (N - (lr * frame.lambda)) * MbSize)
                      - (lr * N * total(i)))
                   * frame.after.weights[i][2]
       /\ frame.after.bias[2] # 0
       /\ frame.after.bias[1] * MbSize
            = ((frame.bias * MbSize) - (lr * errorSum)) * frame.after.bias[2]
       /\ (\A j \in Slots : frame.errors[j] = 0) =>
            /\ frame.after.bias[1] = frame.bias * frame.after.bias[2]
            /\ \A i \in 1 .. Len(frame.weights) :
                 frame.after.weights[i][1] * N
                   = frame.weights[i] * (N - (lr * frame.lambda))
                     * frame.after.weights[i][2]

\* A neuron with a non-zero gradient and a decay factor other than 1 has
\* been updated.
C25_DecayedAndStepped ==
  /\ frame.fn = "FullyConnectedNeuron::endBatch"
  /\ frame.done
  /\ frame.lambda = 1
  /\ frame.n > frame.learningRate
  /\ \A j \in Slots : frame.errors[j] = 1 /\ frame.acts[1][j] = 1
  /\ frame.after.weights[1][1] < 0

\* ---------------------------------------------------------------------
\* The cost of one sample at the output layer.
\* ---------------------------------------------------------------------

\* QuadraticCost::compute, in units of one half: |activation - label|^2.
costFn(activation, label) == (activation - label) * (activation - label)

\* The output neuron's computeOutputCost: the cost function is applied to
\* the neuron's activation and the label it is handed.
neuronComputeOutputCost(acts, n, label) == costFn(acts[n], label)

\* The output layer's computeOutputCost: outputCost starts at 0, the loop
\* calls every neuron's computeOutputCost and drops what it returns, and
\* outputCost is returned as it was initialised.
layerComputeOutputCost(acts, label) ==
  LET loop[n \in 0 .. Len(acts)] ==
        IF n = 0 THEN 0
        ELSE LET discarded == neuronComputeOutputCost(acts, n, label)
             IN loop[n - 1]
  IN loop[Len(acts)]

\* computeOutputCost(label, mb) is called on the output layer.
ComputeOutputCost ==
  /\ frame.fn = "computeOutputCost"
  /\ ~frame.done
  /\ frame' = [frame EXCEPT
                 !.done = TRUE,
                 !.result = layerComputeOutputCost(frame.acts, frame.label)]
  /\ UNCHANGED <<poolLayer, poolMb, poolIn, poolOut, poolDone, outActs,
                 outMb, outResult, callType, callOp, callResult>>
  /\ UNCHANGED netVars

\* An output layer of one to MaxOutputs neurons whose activations of the
\* slot are 0 .. MaxValue, and a label naming one of them (neuron n is
\* acts[n + 1]).
InitComputeOutputCost ==
  /\ impl \in {"hpp", "main4"}
  /\ ndebug = FALSE
  /\ NoNetwork
  /\ NoOtherCall
  /\ \E k \in 1 .. MaxOutputs :
       \E acts \in [1 .. k -> 0 .. MaxValue], label \in 0 .. (k - 1) :
         frame = [fn |-> "computeOutputCost", acts |-> acts,
                  label |-> label, done |-> FALSE, result |-> 0]

NextComputeOutputCost == ComputeOutputCost

SpecComputeOutputCost == InitComputeOutputCost /\ [][NextComputeOutputCost]_vars

\* C26: computeOutputCost(label, slot) returns the sum over all output
\* neurons of the cost function applied to the neuron's activation and its
\* target for that label (1 for the labelled neuron, 0 for the others).
C26_CostIsSumOverNeurons ==
  (frame.fn = "computeOutputCost" /\ frame.done) =>
    LET target(n) == IF n - 1 = frame.label THEN 1 ELSE 0
        sum[n \in 0 .. Len(frame.acts)] ==
          IF n = 0 THEN 0
          ELSE sum[n - 1] + costFn(frame.acts[n], target(n))
    IN frame.result = sum[Len(frame.acts)]

\* The layer has returned 0 for a slot whose two neurons are both on, the
\* cost each neuron computed being non-zero.
C26_ZeroCostForWrongOutput ==
  /\ frame.fn = "computeOutputCost"
  /\ frame.done
  /\ Len(frame.acts) = 2
  /\ frame.label = 0
  /\ frame.acts = <<1, 1>>
  /\ \A n \in 1 .. 2 : neuronComputeOutputCost(frame.acts, n, frame.label) # 0
  /\ frame.result = 0

\* ---------------------------------------------------------------------
\* The bias vector of a convolutional layer.
\* ---------------------------------------------------------------------

\* The extent of the bias array once the constructor has run.  Network.hpp
\* constructs bias with boost::extents[numFMs]; the initialiser list of
\* main4.cpp names weights, neurons and bwdErrors only, so bias is
\* default-constructed and has no element.
convBiasExtent(im, numFMs) == IF im = "hpp" THEN numFMs ELSE 0

\* The bias indices an operation of the layer uses: each of
\* initialiseDefaultWeights, feedForward and endBatch loops over the
\* feature maps and reads or writes bias[fm].
convBiasIndices(op, numFMs) == 0 .. (numFMs - 1)

\* The layer is constructed.
ConvBiasConstruct ==
  /\ frame.fn = "ConvLayer::bias"
  /\ ~frame.constructed
  /\ frame' = [frame EXCEPT
                 !.constructed = TRUE,
                 !.biasExtent = convBiasExtent(impl, frame.numFeatureMaps)]
  /\ UNCHANGED <<poolLayer, poolMb, poolIn, poolOut, poolDone, outActs,
                 outMb, outResult, callType, callOp, callResult>>
  /\ UNCHANGED netVars

\* initialiseDefaultWeights, feedForward or endBatch runs on the constructed
\* layer; an index outside the bias array is a range fault.
ConvBiasUse(op) ==
  /\ frame.fn = "ConvLayer::bias"
  /\ frame.constructed
  /\ frame.status = "ok"
  /\ LET idx == convBiasIndices(op, frame.numFeatureMaps)
     IN \E r \in IF \A i \in idx : i < frame.biasExtent THEN {"ok"}
                 ELSE Outcomes(impl, ndebug, "range") :
          frame' = [frame EXCEPT !.used = @ \cup idx,
                                 !.calls = @ \cup {op},
                                 !.last = op,
                                 !.status = r]
  /\ UNCHANGED <<poolLayer, poolMb, poolIn, poolOut, poolDone, outActs,
                 outMb, outResult, callType, callOp, callResult>>
  /\ UNCHANGED netVars

\* A convolutional layer of one to MaxDim feature maps is declared.
InitConvBias ==
  /\ impl \in {"hpp", "main4"}
  /\ ndebug \in BOOLEAN
  /\ NoNetwork
  /\ NoOtherCall
  /\ \E numFMs \in 1 .. MaxDim :
       frame = [fn |-> "ConvLayer::bias", numFeatureMaps |-> numFMs,
                constructed |-> FALSE, biasExtent |-> 0, used |-> {},
                calls |-> {}, last |-> "none", status |-> "ok"]

NextConvBias ==
  \/ ConvBiasConstruct
  \/ \E op \in {"initialiseDefaultWeights", "feedForward", "endBatch"} :
       ConvBiasUse(op)

SpecConvBias == InitConvBias /\ [][NextConvBias]_vars

\* C27: from construction onward, through initialiseDefaultWeights,
\* feedForward and endBatch, the bias vector of a convolutional layer has
\* numFeatureMaps entries and every bias read or write uses an index in
\* [0, numFeatureMaps) that the vector holds.
C27_OneBiasPerFeatureMap ==
  (frame.fn = "ConvLayer::bias" /\ frame.constructed) =>
    /\ frame.biasExtent = frame.numFeatureMaps
    /\ \A i \in frame.used : 0 <= i /\ i < frame.numFeatureMaps
    /\ \A i \in frame.used : i < frame.biasExtent
    /\ frame.status = "ok"

\* main4.cpp has initialised the weights of a two-feature-map layer and
\* gone on after writing bias[0] and bias[1] of an empty bias array.
C27_Main4BiasNeverSized ==
  /\ frame.fn = "ConvLayer::bias"
  /\ impl = "main4"
  /\ frame.constructed
  /\ frame.numFeatureMaps = 2
  /\ frame.biasExtent = 0
  /\ frame.last = "initialiseDefaultWeights"
  /\ frame.used = {0, 1}
  /\ frame.status = "undefined"

\* ---------------------------------------------------------------------
\* The backward pass of a network without hidden layers.
\* ---------------------------------------------------------------------

\* C28: whatever the list of hidden layers, the empty list included, no
\* backward pass of updateMiniBatch invokes an operation the receiving layer
\* does not support; in particular backPropogate is never invoked on the
\* softmax layer.
C28_BackwardPassSupported ==
  \A w \in Slots : \A i \in DOMAIN log[w] :
    LET o == log[w][i]
    IN /\ OpFault(impl, layers, o, 0, 1) # "unsupported"
       /\ ~(o.op = "backPropogate" /\ layers[o.layer].type = "SoftMax")

\* Network.hpp, no hidden layer: the backward pass of a slot has ended in
\* layers[0]->backPropogate(mb) on the softmax layer and the program has
\* stopped in UNREACHABLE().
C28_BackPropogateOnSoftMax ==
  /\ impl = "hpp"
  /\ config = Net(<<>>, 2, 4)
  /\ Len(layers) = 1
  /\ layers[1].type = "SoftMax"
  /\ \E w \in Slots :
       /\ log[w] # <<>>
       /\ log[w][Len(log[w])] = Op("backPropogate", 1)
  /\ fault = "unsupported"
  /\ phase = "fatal"

\* ---------------------------------------------------------------------
\* Flattening a volume of neurons for a 1-D successor.
\* ---------------------------------------------------------------------

\* getNeuron(index) of a convolutional or max-pooling layer: the coordinate
\* of the neuron it returns.  Network.hpp takes the index apart with getX,
\* getY and getZ over the x and y extents of the neuron array; in main4.cpp
\* the method is DO_NOT_USE and returns a new Neuron(0), no neuron of the
\* layer (<<>>).
getNeuronFlat(im, layer, index) ==
  LET dimX == Shape(layer)[1]
      dimY == Shape(layer)[2]
  IN IF im = "hpp"
     THEN <<getX(index, dimX), getY(index, dimX, dimY),
            getZ(index, dimX, dimY)>>
     ELSE <<>>

\* The index handed to the 1-D successor's getBwdError(index, mb).  A
\* convolutional neuron (x, y, z) uses the dimX and dimY its constructor
\* was given: the x and y extents in Network.hpp, the x extent twice in
\* main4.cpp.  A max-pooling layer asked for input coordinate (x, y, z) uses
\* the pooled neuron (x / poolX, y / poolY, z) and its own x and y extents.
bwdFlatIndex(im, layer, c) ==
  LET dimX == Shape(layer)[1]
      dimY == Shape(layer)[2]
  IN IF layer.type = "Conv"
     THEN getIndex(c[1], c[2], c[3], dimX, IF im = "hpp" THEN dimY ELSE dimX)
     ELSE getIndex(c[1] \div layer.poolX, c[2] \div layer.poolY, c[3],
                   dimX, dimY)

\* The neuron the backward index belongs to: the neuron itself, or the
\* pooled neuron covering the asking coordinate.
flatNeuronOf(layer, c) ==
  IF layer.type = "Conv" THEN c
  ELSE <<c[1] \div layer.poolX, c[2] \div layer.poolY, c[3]>>

\* The successor reads every neuron through getNeuron(i), i below size(),
\* and the error of coordinate c is fetched in the backward pass.
Flatten ==
  /\ frame.fn = "flatten"
  /\ ~frame.done
  /\ frame' = [frame EXCEPT
                 !.done = TRUE,
                 !.fwd = { i \in 0 .. (size(frame.layer) - 1) :
                             getNeuronFlat(impl, frame.layer, i)
                               = flatNeuronOf(frame.layer, frame.at) },
                 !.bwd = bwdFlatIndex(impl, frame.layer, frame.at)]
  /\ UNCHANGED <<poolLayer, poolMb, poolIn, poolOut, poolDone, outActs,
                 outMb, outResult, callType, callOp, callResult>>
  /\ UNCHANGED netVars

\* A convolutional layer and one of its neurons, or a max-pooling layer and
\* one coordinate of its input.
InitFlatten ==
  /\ impl \in {"hpp", "main4"}
  /\ ndebug = FALSE
  /\ NoNetwork
  /\ NoOtherCall
  /\ \E layer \in
         { ConvLayer(1, 1, 1, n[1], n[2], 1, fms) :
             n \in (1 .. MaxDim) \X (1 .. MaxDim), fms \in 1 .. 2 }
         \cup { MaxPoolLayer(q[1], q[2], q[1] * n[1], q[2] * n[2], z) :
                  q \in (1 .. 2) \X (1 .. 2),
                  n \in (1 .. MaxDim) \X (1 .. MaxDim), z \in 1 .. 2 } :
       \E c \in Coords(IF layer.type = "Conv" THEN Shape(layer)
                       ELSE <<layer.inputX, layer.inputY, layer.inputZ>>) :
         frame = [fn |-> "flatten", layer |-> layer, at |-> c,
                  done |-> FALSE, fwd |-> {}, bwd |-> 0]

NextFlatten == Flatten

SpecFlatten == InitFlatten /\ [][NextFlatten]_vars

\* C29: for a convolutional or max-pooling layer followed by a 1-D layer,
\* the flat index under which the successor reads a neuron through
\* getNeuron(i) is the index at which that neuron's error is fetched from
\* the successor in the backward pass (for max-pooling, the neuron covering
\* the asking coordinate), and it is below the layer's size().
C29_FlatteningAgrees ==
  (frame.fn = "flatten" /\ frame.done) =>
    /\ frame.fwd = {frame.bwd}
    /\ frame.bwd < size(frame.layer)

\* main4.cpp: neuron (0, 0, 1) of a 2x1 convolutional layer with two feature
\* maps fetches its error at index 4 of a successor of 4 neurons, and no
\* getNeuron(i) gives the successor that neuron.
C29_Main4IndexBeyondSize ==
  /\ frame.fn = "flatten"
  /\ frame.done
  /\ impl = "main4"
  /\ frame.layer = ConvLayer(1, 1, 1, 2, 1, 1, 2)
  /\ frame.at = <<0, 0, 1>>
  /\ size(frame.layer) = 4
  /\ frame.bwd = 4
  /\ frame.fwd = {}

\* ---------------------------------------------------------------------
\* Dataset sizes that are not a multiple of the mini-batch size.
\* ---------------------------------------------------------------------

\* C30: for every dataset size N >= 1, multiples of the mini-batch size or
\* not, the mini-batch loop of SGD and the evaluations dereference only
\* image and label positions in [0, N).
C30_OnlyPositionsBelowN ==
  /\ fault # "pastEnd"
  /\ phase = "updateMiniBatch" =>
       \A w \in Slots : log[w] # <<>> => mbStart + w < numImages

\* The last mini-batch of a set whose size is not a multiple of mbSize: a
\* slot's backward pass has dereferenced trainingImagesIt + i at or beyond
\* the end of the images and the program has gone on.
C30_PartialBatchReadsPastEnd ==
  /\ numImages % MbSize # 0
  /\ mbStart < numImages
  /\ \E w \in Slots :
       /\ mbStart + w >= numImages
       /\ log[w] = <<Op("setImage", 0)>>
  /\ fault = "pastEnd"
  /\ phase = "undefined"

====
